---------------------------- MODULE Spec2Model ----------------------------
(***************************************************************************)
(* Model of the decision pipeline of the SMC signal engine                 *)
(* (engine.py, store.py, correlation_guard.py, flow_detector.py,           *)
(* session_analyzer.py, scoring.py).                                       *)
(*                                                                         *)
(* Numbers.  The program computes with floats; the model computes with    *)
(* exact integers and names the scale in each definition:                  *)
(*   - correlation weights in tenths (-0.8 is -8);                         *)
(*   - an alignment score is a fraction [num, den];                        *)
(*   - points of the scorer in hundredths (1.5 is 150);                    *)
(*   - risk in hundredths of a percent (0.005 is 50).                      *)
(***************************************************************************)
EXTENDS Integers, Sequences, FiniteSets, TLC

VARIABLES
    corrSide,       \* gold_signal['side'] handed to the correlation guard
    corrRates,      \* what mt5_client.get_rates answers for each basket asset
    corrRunA,       \* result of a first get_correlation_insights on these inputs
    corrRunB,       \* result of a second call on the same inputs
    flowDf,         \* the H1 series the flow detector is called on
    recent_blocks,  \* InstitutionalFlowDetector.recent_blocks
    flowOut,        \* result of the last get_flow_analysis on flowDf, if any
    sizBase,        \* config.trading.risk_per_trade, a fraction
    sizRegime,      \* regime_info handed to _apply_adaptive_sizing
    sizSignal,      \* the signal dict handed to _apply_adaptive_sizing
    sizOut,         \* the signal it returned, if it ran
    scIn,           \* what calculate_elite_score reads from its arguments
    scOut,          \* what it returned, if it ran
    detIn,          \* the candles (and regime) handed to the detector under check
    detOut,         \* what it found and what was built from it, if it ran
    cfg,            \* the configuration the engine was built with
    bar,            \* index of the H1 bar now forming
    latest,         \* high, low and close of that bar as get_rates gives them
    signals,        \* store: the rows of the signals table, by id
    outcomes,       \* store: the rows of the outcomes table, oldest first
    sent,           \* ids handed to _send_elite_notification, oldest first
    notifier,       \* whether the chart generator and Telegram work just now
    delivered,      \* ids whose notification Telegram accepted, oldest first
    last,           \* how the candidate of the latest cycle was handled
    checked,        \* what the latest outcome check saw and recorded
    cycle           \* what the latest run_cycle over all symbols read, and how it ended

corrVars == <<corrSide, corrRates, corrRunA, corrRunB>>
flowVars == <<flowDf, recent_blocks, flowOut>>
sizVars == <<sizBase, sizRegime, sizSignal, sizOut>>
scVars == <<scIn, scOut>>
detVars == <<detIn, detOut>>
engVars == <<cfg, bar, latest, signals, outcomes, sent, notifier, delivered,
             last, checked, cycle>>

vars == <<corrSide, corrRates, corrRunA, corrRunB,
          flowDf, recent_blocks, flowOut,
          sizBase, sizRegime, sizSignal, sizOut,
          scIn, scOut, detIn, detOut,
          cfg, bar, latest, signals, outcomes, sent, notifier, delivered,
          last, checked, cycle>>

Abs(x) == IF x < 0 THEN -x ELSE x
Min(a, b) == IF b < a THEN b ELSE a
Max(a, b) == IF b > a THEN b ELSE a

(***************************************************************************)
(* Fractions [num, den] with den > 0.                                      *)
(***************************************************************************)
Frac(n, d) == [num |-> n, den |-> d]
FracLt(a, b) == a.num * b.den < b.num * a.den
FracGe(a, b) == a.num * b.den >= b.num * a.den
FracEq(a, b) == a.num * b.den = b.num * a.den
RECURSIVE Gcd(_, _)
Gcd(a, b) == IF b = 0 THEN a ELSE Gcd(b, a % b)
\* the same fraction in lowest terms
FracNorm(a) ==
    LET g == Gcd(Abs(a.num), a.den) IN Frac(a.num \div g, a.den \div g)
\* the sum, over the least common denominator
FracAdd(a, b) ==
    LET g == Gcd(a.den, b.den)
    IN FracNorm(Frac(a.num * (b.den \div g) + b.num * (a.den \div g),
                     (a.den \div g) * b.den))
\* the product, cancelling across before multiplying
FracMul(a, b) ==
    LET g1 == Gcd(Abs(a.num), b.den)
        g2 == Gcd(Abs(b.num), a.den)
    IN FracNorm(Frac((a.num \div g1) * (b.num \div g2),
                     (a.den \div g2) * (b.den \div g1)))
\* round(x) to an integer, ties to the even neighbour
RoundHalfEven(a) ==
    LET q == a.num \div a.den
        r == a.num % a.den
    IN IF 2 * r < a.den THEN q
       ELSE IF 2 * r > a.den THEN q + 1
       ELSE IF q % 2 = 0 THEN q ELSE q + 1
\* dict.get(k, default) on a record or the empty dict <<>>
DictGet(d, k, default) == IF k \in DOMAIN d THEN d[k] ELSE default
FracMin(a, b) == IF FracLt(b, a) THEN b ELSE a
FracMax(a, b) == IF FracLt(a, b) THEN b ELSE a

(***************************************************************************)
(* CorrelationGuard                                                        *)
(***************************************************************************)
Sides == {"BUY", "SELL"}
Trends == {"BULLISH", "BEARISH", "NEUTRAL"}

\* CorrelationGuard.__init__: the basket and its weights, in tenths
Assets == {"DXY", "US10Y", "SPX", "EURUSD", "OIL"}
AssetWeight10 ==
    [a \in Assets |->
        CASE a = "DXY" -> -8
          [] a = "US10Y" -> -6
          [] a = "SPX" -> -4
          [] a = "EURUSD" -> 7
          [] a = "OIL" -> 3]

\* bars a series must exceed for the real trend analysis (len(data) > 20)
TrendMinBars == 20

\* What get_rates answers for one asset: it raises, it returns None, or it
\* returns a frame of `bars` rows whose EMA analysis
\* (_analyze_trend_from_data) gives `trend`.
RatesRaises == [kind |-> "raises", bars |-> 0, trend |-> "NEUTRAL"]
RatesNone == [kind |-> "none", bars |-> 0, trend |-> "NEUTRAL"]
RatesShort == [kind |-> "df", bars |-> TrendMinBars, trend |-> "NEUTRAL"]
RatesOutages == {RatesRaises, RatesNone, RatesShort}
RatesData == [kind : {"df"}, bars : {TrendMinBars + 1}, trend : Trends]

\* an asset whose price data is unavailable
Unavailable(r) == r.kind \in {"raises", "none"} \/ (r.kind = "df" /\ r.bars <= TrendMinBars)

\* _get_mock_trend: random.choices over the three trends; every weight is
\* positive, so each trend can be drawn
MockTrends(asset) == Trends

\* _get_asset_trend: the set of values the call can return
AssetTrends(asset, r) ==
    IF r.kind = "raises" THEN {"UNAVAILABLE"}
    ELSE IF r.kind = "df" /\ r.bars > TrendMinBars THEN {r.trend}
    ELSE MockTrends(asset)

\* _check_asset_alignment for the trend the asset call returned:
\* [aligned, score2] with score2 the asset score in halves
CheckAssetAlignment(asset, side, trend) ==
    IF trend = "UNAVAILABLE" THEN [aligned |-> TRUE, score2 |-> 1]
    ELSE LET want == IF side = "BUY"
                     THEN (IF AssetWeight10[asset] > 0 THEN "BULLISH" ELSE "BEARISH")
                     ELSE (IF AssetWeight10[asset] > 0 THEN "BEARISH" ELSE "BULLISH")
         IN [aligned |-> trend = want, score2 |-> IF trend = want THEN 2 ELSE 0]

\* threshold of "aligned", in tenths (weighted_score >= 0.6)
CorrAlignedMin10 == 6

\* check_correlation_alignment given the trend each asset call returned:
\* weighted_score = sum(score * |weight|) / sum(|weight|)
CheckCorrelationAlignment(side, trendOf) ==
    LET part == [a \in Assets |->
                    LET r == CheckAssetAlignment(a, side, trendOf[a])
                    IN IF r.aligned THEN r.score2 * Abs(AssetWeight10[a]) ELSE 0]
        total == Abs(AssetWeight10["DXY"]) + Abs(AssetWeight10["US10Y"])
                 + Abs(AssetWeight10["SPX"]) + Abs(AssetWeight10["EURUSD"])
                 + Abs(AssetWeight10["OIL"])
        score == Frac(part["DXY"] + part["US10Y"] + part["SPX"] + part["EURUSD"]
                      + part["OIL"], 2 * total)
    IN [aligned |-> FracGe(score, Frac(CorrAlignedMin10, 10)),
        alignment_score |-> score]

\* get_correlation_insights: the aligned flag and the score of the check
GetCorrelationInsights(side, trendOf) == CheckCorrelationAlignment(side, trendOf)

\* the results get_correlation_insights can return on these rates: one per
\* combination of what the five _get_asset_trend calls return
CorrelationResults(side, rates) ==
    {GetCorrelationInsights(side,
        [a \in Assets |->
            CASE a = "DXY" -> t1 [] a = "US10Y" -> t2 [] a = "SPX" -> t3
              [] a = "EURUSD" -> t4 [] a = "OIL" -> t5]) :
        t1 \in AssetTrends("DXY", rates["DXY"]),
        t2 \in AssetTrends("US10Y", rates["US10Y"]),
        t3 \in AssetTrends("SPX", rates["SPX"]),
        t4 \in AssetTrends("EURUSD", rates["EURUSD"]),
        t5 \in AssetTrends("OIL", rates["OIL"])}

\* engine.py: a gate result below this score (in tenths) and not aligned vetoes
VetoBelow10 == 4

\* the veto condition of _handle_elite_signal on a gate result
IsVeto(g) == ~g.aligned /\ FracLt(g.alignment_score, Frac(VetoBelow10, 10))

(***************************************************************************)
(* InstitutionalFlowDetector                                               *)
(*                                                                         *)
(* A bar of the series carries what _analyze_candle_for_blocks reads at    *)
(* its index: open o, close c, volume v, the rolling 20-bar mean volume    *)
(* avgv and the ATR(14) atr at that index.  A series is held as           *)
(* [warm, tail]: `warm` quiet bars followed by the bars of `tail`; indexes *)
(* count from 0 as in Python.                                              *)
(***************************************************************************)
QuietBar == [o |-> 10, c |-> 11, v |-> 1, avgv |-> 1, atr |-> 1]
Series(warm, tail) == [warm |-> warm, tail |-> tail]
\* len(df)
SLen(df) == df.warm + Len(df.tail)
\* df.iloc[idx]
SBar(df, idx) == IF idx < df.warm THEN QuietBar ELSE df.tail[idx - df.warm + 1]
\* __init__ defaults: volume_threshold = 2.0, atr_threshold = 1.0
VolumeThreshold == 2
AtrThreshold == 1
\* detect_block_trades: first index analysed, and the window kept
FlowFirstIdx == 20
FlowKeepBars == 10
\* is_flow_aligned: "last 5 candles"
FlowRecentBars == 5
\* cap of a block's strength (min(2.0, ...))
StrengthCap == 2
\* threshold of "aligned", in tenths (combined_score >= 0.6)
FlowAlignedMin10 == 6

\* _analyze_candle_for_blocks: <<>> for None, else <<block>>
AnalyzeCandleForBlocks(df, idx) ==
    LET b == SBar(df, idx)
        volume_ratio == IF b.avgv > 0 THEN Frac(b.v, b.avgv) ELSE Frac(1, 1)
        body_size == Abs(b.c - b.o)
        body_atr_ratio == IF b.atr > 0 THEN Frac(body_size, b.atr) ELSE Frac(0, 1)
    IN IF FracLt(volume_ratio, Frac(VolumeThreshold, 1)) THEN <<>>
       ELSE IF FracLt(body_atr_ratio, Frac(AtrThreshold, 1)) THEN <<>>
       ELSE <<[idx |-> idx,
               direction |-> IF b.c > b.o THEN "BUY" ELSE "SELL",
               strength |-> FracMin(Frac(StrengthCap, 1),
                                FracAdd(FracMul(volume_ratio, Frac(6, 10)),
                                        FracMul(body_atr_ratio, Frac(4, 10))))]>>

RECURSIVE BlocksFrom(_, _)
\* the loop of detect_block_trades from index i on, in index order
BlocksFrom(df, i) ==
    IF i >= SLen(df) THEN <<>>
    ELSE AnalyzeCandleForBlocks(df, i) \o BlocksFrom(df, i + 1)

\* detect_block_trades without the window: every block found is kept
DetectBlockTradesKeepAll(df) == BlocksFrom(df, FlowFirstIdx)

\* detect_block_trades: the new value of recent_blocks (also returned)
DetectBlockTrades(df) ==
    SelectSeq(BlocksFrom(df, FlowFirstIdx),
              LAMBDA b : b.idx >= SLen(df) - FlowKeepBars)

RECURSIVE SumStrength(_)
SumStrength(blocks) ==
    IF blocks = <<>> THEN Frac(0, 1)
    ELSE FracAdd(Head(blocks).strength, SumStrength(Tail(blocks)))

\* is_flow_aligned without its two early returns: the ratios of an empty
\* selection fall to their "else 0" branches
IsFlowAlignedNoEarlyReturn(side, n, blocks) ==
    LET recent == SelectSeq(blocks, LAMBDA b : b.idx >= n - FlowRecentBars)
        aligned_blocks == SelectSeq(recent, LAMBDA b : b.direction = side)
        alignment_ratio ==
            IF Len(recent) > 0 THEN Frac(Len(aligned_blocks), Len(recent)) ELSE Frac(0, 1)
        aligned_strength == SumStrength(aligned_blocks)
        total_strength == SumStrength(recent)
        strength_alignment ==
            IF total_strength.num > 0
            THEN FracNorm(Frac(aligned_strength.num * total_strength.den,
                               aligned_strength.den * total_strength.num))
            ELSE Frac(0, 1)
        combined_score == FracAdd(FracMul(alignment_ratio, Frac(6, 10)),
                                  FracMul(strength_alignment, Frac(4, 10)))
    IN [aligned |-> FracGe(combined_score, Frac(FlowAlignedMin10, 10)),
        alignment_score |-> combined_score]

\* is_flow_aligned(signal, blocks) with n = len(signal['df'])
IsFlowAligned(side, n, blocks) ==
    IF blocks = <<>> THEN [aligned |-> TRUE, alignment_score |-> Frac(1, 2)]
    ELSE
    LET recent == SelectSeq(blocks, LAMBDA b : b.idx >= n - FlowRecentBars)
    IN IF recent = <<>> THEN [aligned |-> TRUE, alignment_score |-> Frac(1, 2)]
       ELSE
       LET aligned_blocks == SelectSeq(recent, LAMBDA b : b.direction = side)
           total_blocks == Len(recent)
           alignment_ratio == Frac(Len(aligned_blocks), total_blocks)
           aligned_strength == SumStrength(aligned_blocks)
           total_strength == SumStrength(recent)
           strength_alignment ==
               IF total_strength.num > 0
               THEN FracNorm(Frac(aligned_strength.num * total_strength.den,
                                  aligned_strength.den * total_strength.num))
               ELSE Frac(0, 1)
           combined_score == FracAdd(FracMul(alignment_ratio, Frac(6, 10)),
                                     FracMul(strength_alignment, Frac(4, 10)))
       IN [aligned |-> FracGe(combined_score, Frac(FlowAlignedMin10, 10)),
           alignment_score |-> combined_score]

\* get_flow_analysis(signal, df) where df is signal['df']: the gate result
\* and the detector's new recent_blocks
GetFlowAnalysis(side, df) ==
    LET blocks == DetectBlockTrades(df)
        r == IsFlowAligned(side, SLen(df), blocks)
    IN [aligned |-> r.aligned, alignment_score |-> r.alignment_score,
        recent_blocks_count |-> Len(blocks), blocks |-> blocks]

(***************************************************************************)
(* MarketRegimeDetector._get_adaptive_parameters; multipliers in tenths    *)
(***************************************************************************)
RegimeTypes == {"HIGH_VOLATILITY", "EXTREME_LOW_VOLATILITY", "TRENDING_BULLISH",
                "TRENDING_BEARISH", "RANGING_MARKET", "MIXED_REGIME"}

GetAdaptiveParameters(regime_type) ==
    CASE regime_type = "HIGH_VOLATILITY" ->
            [score_threshold |-> 8, risk_multiplier |-> Frac(5, 10),
             position_size_multiplier |-> Frac(7, 10), max_trades_per_day |-> 2]
      [] regime_type = "EXTREME_LOW_VOLATILITY" ->
            [score_threshold |-> 7, risk_multiplier |-> Frac(8, 10),
             position_size_multiplier |-> Frac(12, 10), max_trades_per_day |-> 4]
      [] regime_type = "TRENDING_BULLISH" ->
            [score_threshold |-> 6, risk_multiplier |-> Frac(12, 10),
             position_size_multiplier |-> Frac(11, 10), max_trades_per_day |-> 5]
      [] regime_type = "TRENDING_BEARISH" ->
            [score_threshold |-> 6, risk_multiplier |-> Frac(11, 10),
             position_size_multiplier |-> Frac(11, 10), max_trades_per_day |-> 5]
      [] regime_type = "RANGING_MARKET" ->
            [score_threshold |-> 7, risk_multiplier |-> Frac(9, 10),
             position_size_multiplier |-> Frac(9, 10), max_trades_per_day |-> 3]
      [] OTHER ->
            [score_threshold |-> 6, risk_multiplier |-> Frac(10, 10),
             position_size_multiplier |-> Frac(10, 10), max_trades_per_day |-> 3]

\* detect_regime's result, as far as the engine reads it
RegimeInfo(regime_type) ==
    [type |-> regime_type, adaptive_params |-> GetAdaptiveParameters(regime_type)]

\* _detect_market_regime's fallback
UnknownRegime == [type |-> "UNKNOWN", adaptive_params |-> <<>>]

RegimeInfos == {RegimeInfo(t) : t \in RegimeTypes} \cup {UnknownRegime}

(***************************************************************************)
(* EliteSignalEngine._apply_adaptive_sizing                                *)
(***************************************************************************)
\* the caps of final_risk: 0.005 and 0.05
RiskFloor == Frac(5, 1000)
RiskCeil == Frac(5, 100)
\* the cap of the session multiplier: min(1.2, session_score)
SessionCap == Frac(12, 10)

\* final_risk before the caps
UncappedRisk(signal, regime_info, base_risk) ==
    LET adaptive_params == DictGet(regime_info, "adaptive_params", <<>>)
        regime_multiplier ==
            DictGet(adaptive_params, "position_size_multiplier", Frac(1, 1))
        score_multiplier == Frac(signal.score, 10)
        correlation_score ==
            DictGet(DictGet(signal, "correlation_insights", <<>>),
                    "alignment_score", Frac(1, 2))
        correlation_multiplier == FracAdd(Frac(1, 2), correlation_score)
        flow_score ==
            DictGet(DictGet(signal, "flow_analysis", <<>>),
                    "alignment_score", Frac(1, 2))
        flow_multiplier == FracAdd(Frac(1, 2), flow_score)
        session_score ==
            DictGet(DictGet(signal, "session_analysis", <<>>),
                    "optimality_score", Frac(1, 1))
        session_multiplier == FracMin(SessionCap, session_score)
    IN FracMul(FracMul(FracMul(base_risk, regime_multiplier),
                       FracMul(score_multiplier, correlation_multiplier)),
               FracMul(flow_multiplier, session_multiplier))

\* the caps with the upper one left out
CapRiskFloorOnly(final_risk) == FracMax(RiskFloor, final_risk)

\* max(0.005, min(0.05, final_risk))
CapRisk(final_risk) == FracMax(RiskFloor, FracMin(RiskCeil, final_risk))

\* _apply_adaptive_sizing: the signal with adaptive_risk_percent (in
\* hundredths of a percent: round(final_risk * 100, 2)) and
\* position_size_multiplier (in hundredths: round(final_risk / base_risk, 2))
ApplyAdaptiveSizing(signal, regime_info, base_risk) ==
    LET final_risk == CapRisk(UncappedRisk(signal, regime_info, base_risk))
    IN [adaptive_risk_percent |->
            RoundHalfEven(FracMul(final_risk, Frac(10000, 1))),
        position_size_multiplier |->
            RoundHalfEven(FracMul(FracMul(final_risk, Frac(100, 1)),
                                  Frac(base_risk.den, base_risk.num)))]
       @@ signal

(***************************************************************************)
(* EliteScorer and the detectors it calls.  Points are in hundredths (0.75 *)
(* is 75); ratios and strengths are in tenths.  A price series is held as  *)
(* the quantities the code reads from it:                                  *)
(*   n            len(df)                                                  *)
(*   h, l, c, v   the last bar;  h2, l2  the high and low of the bar       *)
(*                before it                                                *)
(*   hi9, lo9     highest high / lowest low of the 9 bars before the last  *)
(*   hi19, lo19   the same over the 19 bars before the last                *)
(*   vhi, vlo     the volume of the bar holding hi19 / lo19                *)
(*   atr          ATR(14) at the last bar                                  *)
(*   up, down     rising / falling closes among the last 10 (at most 9:    *)
(*                the first of the ten has nothing to compare with)        *)
(*   ema21, ema50, ema100   the last values of the three EMAs              *)
(*   recent_vol   mean volume of the last 10 bars                          *)
(*   avg_vol      rolling 20-bar mean volume at the last bar               *)
(*   avg_at_ob    the same mean at ob.idx: <<>> for NaN                    *)
(*   gaps         the fair value gaps of the series, oldest first          *)
(***************************************************************************)
\* n / d >= tn / td as floats compare it: n / 0 is inf for n > 0, nan for 0
RatioGe(n, d, tn, td) == IF d = 0 THEN n > 0 ELSE n * td >= tn * d
\* n / d <= tn / td: false for inf and for nan
RatioLe(n, d, tn, td) == IF d = 0 THEN FALSE ELSE n * td <= tn * d

BosLookback == 10

\* InstitutionalDetector.bos_mss_confirmed: [confirmed, direction, strength10]
BosMssConfirmed(df) ==
    IF df.n < BosLookback + 5
    THEN [confirmed |-> FALSE, direction |-> "none", strength10 |-> 0]
    ELSE
    LET resistance == Max(df.h, df.hi9)     \* the window holds the last bar
        support == Min(df.l, df.lo9)
        bos_up == df.h > resistance /\ df.c > resistance
        bos_down == df.l < support /\ df.c < support
    IN IF bos_up
       THEN [confirmed |-> TRUE, direction |-> "bullish",
             strength10 |-> 5 + 5 * (IF df.h > df.h2 /\ df.l > df.l2 THEN 1 ELSE 0)]
       ELSE IF bos_down
       THEN [confirmed |-> TRUE, direction |-> "bearish",
             strength10 |-> 5 + 5 * (IF df.h < df.h2 /\ df.l < df.l2 THEN 1 ELSE 0)]
       ELSE [confirmed |-> FALSE, direction |-> "none", strength10 |-> 0]

\* min(2.0, sweep / atr) >= 1.0; min keeps 2.0 when the quotient is nan
GrabStrong(sweep, atr_val) == IF atr_val = 0 THEN TRUE ELSE sweep >= atr_val

\* InstitutionalDetector.liquidity_grab_detected: <<>> for None
LiquidityGrabDetected(df) ==
    IF df.n < 10 THEN <<>>
    ELSE
    LET swing_high == Max(df.h, df.hi19)    \* the window holds the last bar
        swing_low == Min(df.l, df.lo19)
        \* idxmax / idxmin give the first bar holding the extreme
        vol_high == IF df.hi19 >= df.h THEN df.vhi ELSE df.v
        vol_low == IF df.lo19 <= df.l THEN df.vlo ELSE df.v
    IN IF df.h > swing_high /\ df.c < swing_high /\ df.v > vol_high
       THEN <<[type |-> "grab_highs", sweep_price |-> swing_high,
               strong |-> GrabStrong(df.h - swing_high, df.atr)]>>
       ELSE IF df.l < swing_low /\ df.c > swing_low /\ df.v > vol_low
       THEN <<[type |-> "grab_lows", sweep_price |-> swing_low,
               strong |-> GrabStrong(swing_low - df.l, df.atr)]>>
       ELSE <<>>

\* InstitutionalDetector.find_imbalances: the gaps, marked filled when the
\* last close lies inside them
FindImbalances(df) ==
    [k \in 1..Len(df.gaps) |->
        [type |-> df.gaps[k].type, idx |-> df.gaps[k].idx,
         low |-> df.gaps[k].low, high |-> df.gaps[k].high,
         filled |-> df.gaps[k].low <= df.c /\ df.c <= df.gaps[k].high]]

\* _calculate_recent_momentum, in tenths
CalculateRecentMomentum(df, bullish) ==
    IF df.n < 10 THEN 5 ELSE IF bullish THEN df.up ELSE df.down

\* _score_daily_bias
ScoreDailyBias(d1, ob) ==
    LET trend ==
            IF \/ (d1.ema21 > d1.ema50 /\ d1.ema50 > d1.ema100 /\ ob.bullish)
               \/ (d1.ema21 < d1.ema50 /\ d1.ema50 < d1.ema100 /\ ~ob.bullish)
            THEN 75
            ELSE IF \/ (d1.c > d1.ema50 /\ ob.bullish)
                    \/ (d1.c < d1.ema50 /\ ~ob.bullish)
            THEN 50 ELSE 0
        momentum == IF CalculateRecentMomentum(d1, ob.bullish) > 6 THEN 25 ELSE 0
    IN Min(150, trend + momentum)

\* _score_order_block_quality; df is the series the block was found in
ScoreOrderBlockQuality(ob, df) ==
    LET avg == df.avg_at_ob
        disp == IF ob.displacement10 >= 30 THEN 50
                ELSE IF ob.displacement10 >= 20 THEN 30
                ELSE IF ob.displacement10 >= 15 THEN 10 ELSE 0
        tf == IF ob.tf = "H4" THEN 50 ELSE IF ob.tf = "H1" THEN 30 ELSE 0
        hasAvg == avg # <<>> /\ avg[1] > 0
        vol == IF hasAvg /\ ob.volume * 10 >= 15 * avg[1] THEN 25
               ELSE IF hasAvg /\ ob.volume * 10 >= 12 * avg[1] THEN 15 ELSE 0
        qual == IF ob.quality10 >= 8 THEN 25
                ELSE IF ob.quality10 >= 6 THEN 15 ELSE 0
    IN Min(150, disp + tf + vol + qual)

RECURSIVE Strongest(_)
\* max(relevant_zones, key=strength): the first zone of greatest strength
Strongest(zs) ==
    IF Len(zs) = 1 THEN zs[1]
    ELSE LET rest == Strongest(Tail(zs))
         IN IF rest.strength10 > zs[1].strength10 THEN rest ELSE zs[1]

\* _score_liquidity_confirmation
ScoreLiquidityConfirmation(h1, ob, zones) ==
    LET grab == LiquidityGrabDetected(h1)
        grabPts == IF grab = <<>> THEN 0
                   ELSE IF grab[1].strong THEN 75 ELSE 50
        relevant == SelectSeq(zones, LAMBDA z :
                        \/ (ob.bullish /\ z.type \in {"equal_low", "session_low"})
                        \/ (~ob.bullish /\ z.type \in {"equal_high", "session_high"}))
        zonePts == IF zones = <<>> \/ relevant = <<>> THEN 0
                   ELSE LET diff == Abs(h1.c - Strongest(relevant).price)
                        IN IF 2 * diff <= h1.atr THEN 50
                           ELSE IF diff <= h1.atr THEN 25 ELSE 0
        confirmations == (IF grab # <<>> THEN 1 ELSE 0) + (IF zones # <<>> THEN 1 ELSE 0)
        confPts == IF confirmations >= 2 THEN 25 ELSE 0
    IN Min(150, grabPts + zonePts + confPts)

\* _score_fu_candle_strength
ScoreFuCandleStrength(fu, h1, ob) ==
    IF fu = <<>> THEN 0
    ELSE
    LET f == fu[1]
        body == IF RatioGe(f.body_size, h1.atr, 12, 10) THEN 50
                ELSE IF RatioGe(f.body_size, h1.atr, 8, 10) THEN 30
                ELSE IF RatioGe(f.body_size, h1.atr, 5, 10) THEN 10 ELSE 0
        close == IF \/ (f.direction = "bullish" /\ f.close_frac10 >= 7)
                    \/ (f.direction = "bearish" /\ f.close_frac10 <= 3)
                 THEN 40
                 ELSE IF \/ (f.direction = "bullish" /\ f.close_frac10 >= 6)
                         \/ (f.direction = "bearish" /\ f.close_frac10 <= 4)
                 THEN 20 ELSE 0
        align == IF \/ (f.direction = "bullish" /\ ~ob.bullish)
                    \/ (f.direction = "bearish" /\ ob.bullish)
                 THEN 30 ELSE 0
        vol == IF f.volume_ratio10 >= 20 THEN 30
               ELSE IF f.volume_ratio10 >= 15 THEN 15 ELSE 0
    IN Min(150, body + close + align + vol)

\* _score_market_structure
ScoreMarketStructure(h1, h4, ob) ==
    LET m1 == BosMssConfirmed(h1)
        m4 == BosMssConfirmed(h4)
        want == IF ob.bullish THEN "bullish" ELSE "bearish"
        bos == IF m4.confirmed /\ m4.direction = want THEN 75
               ELSE IF m1.confirmed /\ m1.direction = want THEN 50
               ELSE IF m1.strength10 >= 7 \/ m4.strength10 >= 7 THEN 25 ELSE 0
        multi == IF m1.direction = want /\ m4.direction = want THEN 50 ELSE 0
        momentum == IF CalculateRecentMomentum(h1, ob.bullish) >= 7 THEN 25 ELSE 0
    IN Min(150, bos + multi + momentum)

\* _score_institutional_zone: distance of the close to the OB mid, in ATRs
ScoreInstitutionalZone(h1, ob) ==
    LET dist2 == Abs(2 * h1.c - (ob.body_high + ob.body_low))
        pts == IF RatioLe(dist2, 2 * h1.atr, 3, 10) THEN 100
               ELSE IF RatioLe(dist2, 2 * h1.atr, 5, 10) THEN 70
               ELSE IF RatioLe(dist2, 2 * h1.atr, 8, 10) THEN 40
               ELSE IF RatioLe(dist2, 2 * h1.atr, 10, 10) THEN 20 ELSE 0
    IN Min(100, pts)

\* _score_volume_confirmation
ScoreVolumeConfirmation(h1, ob, fu) ==
    LET guarded == h1.avg_vol > 0
        trend == IF guarded /\ h1.recent_vol * 10 >= 15 * h1.avg_vol THEN 50
                 ELSE IF guarded /\ h1.recent_vol * 10 >= 12 * h1.avg_vol THEN 30 ELSE 0
        fuPts == IF fu # <<>> /\ fu[1].volume_ratio10 >= 15 THEN 30 ELSE 0
        obPts == IF /\ ob.idx < h1.n
                    /\ h1.avg_at_ob # <<>>
                    /\ RatioGe(ob.volume, h1.avg_at_ob[1], 15, 10)
                 THEN 20 ELSE 0
    IN Min(100, trend + fuPts + obPts)

\* _score_imbalance_analysis
ScoreImbalanceAnalysis(h1, ob) ==
    LET imbalances == FindImbalances(h1)
        recent == SelectSeq(imbalances, LAMBDA i : i.idx >= h1.n - 10)
        filled == SelectSeq(recent, LAMBDA i : i.filled)
        want == IF ob.bullish THEN "bullish_fvg" ELSE "bearish_fvg"
        directional == SelectSeq(recent, LAMBDA i : ~i.filled /\ i.type = want)
    IN Min(50, (IF filled # <<>> THEN 25 ELSE 0)
               + (IF directional # <<>> THEN 25 ELSE 0))

\* the final score without its ceiling of 10
FinalScoreNoCeiling(total) == Max(1, RoundHalfEven(Frac(2 * total, 100)))

\* max(1, min(10, int(round(total_score * 2))))
FinalScore(total) == Max(1, Min(10, RoundHalfEven(Frac(2 * total, 100))))

\* calculate_elite_score: final_score and score_breakdown (total_score is the
\* local sum the final score is taken from)
CalculateEliteScore(d1, h4, h1, ob, fu_candle, liquidity_zones) ==
    LET breakdown ==
            [daily_bias |-> ScoreDailyBias(d1, ob),
             ob_quality |-> ScoreOrderBlockQuality(ob, IF ob.tf = "H4" THEN h4 ELSE h1),
             liquidity |-> ScoreLiquidityConfirmation(h1, ob, liquidity_zones),
             fu_strength |-> ScoreFuCandleStrength(fu_candle, h1, ob),
             market_structure |-> ScoreMarketStructure(h1, h4, ob),
             institutional_zone |-> ScoreInstitutionalZone(h1, ob),
             volume |-> ScoreVolumeConfirmation(h1, ob, fu_candle),
             imbalance |-> ScoreImbalanceAnalysis(h1, ob)]
        total == breakdown.daily_bias + breakdown.ob_quality + breakdown.liquidity
                 + breakdown.fu_strength + breakdown.market_structure
                 + breakdown.institutional_zone + breakdown.volume
                 + breakdown.imbalance
    IN [score |-> FinalScore(total), score_breakdown |-> breakdown,
        total_score |-> total]

(***************************************************************************)
(* SessionAnalyzer.  The time of day is the UTC hour.                      *)
(***************************************************************************)
\* self.sessions in insertion order, which is the order the windows are tried
SessionNames == <<"ASIAN", "LONDON", "NEW_YORK", "OVERLAP">>
SessionInfo(name) ==
    CASE name = "ASIAN" -> [start |-> 0, end |-> 8, score_boost |-> Frac(8, 10)]
      [] name = "LONDON" -> [start |-> 8, end |-> 16, score_boost |-> Frac(12, 10)]
      [] name = "NEW_YORK" -> [start |-> 13, end |-> 21, score_boost |-> Frac(15, 10)]
      [] name = "OVERLAP" -> [start |-> 13, end |-> 16, score_boost |-> Frac(18, 10)]

\* _calculate_time_remaining: `end_datetime < current_time` compares the
\* naive datetime built by datetime.combine with the aware now_utc, which
\* raises TypeError; nothing is returned
CalculateTimeRemaining(current_time, session_end) == [raised |-> TRUE, hours |-> 0]

\* get_current_session: the first window holding the time, else AFTER_HOURS
GetCurrentSession(now) ==
    LET matching == SelectSeq(SessionNames, LAMBDA n :
                        SessionInfo(n).start <= now /\ now < SessionInfo(n).end)
    IN IF matching # <<>>
       THEN LET t == CalculateTimeRemaining(now, SessionInfo(matching[1]).end)
            IN [raised |-> t.raised, name |-> matching[1],
                score_boost |-> SessionInfo(matching[1]).score_boost,
                time_remaining |-> t.hours]
       ELSE [raised |-> FALSE, name |-> "AFTER_HOURS",
             score_boost |-> Frac(5, 10), time_remaining |-> 0]

\* analyze_session_optimality: [raised, optimal, optimality_score]
AnalyzeSessionOptimality(signal, now) ==
    LET cur == GetCurrentSession(now)
        factor == IF cur.name = "OVERLAP" THEN Frac(12, 10)
                  ELSE IF cur.name = "LONDON"
                  THEN (IF DictGet(signal, "score", 0) >= 7
                        THEN Frac(11, 10) ELSE Frac(9, 10))
                  ELSE IF cur.name = "NEW_YORK" THEN Frac(1, 1)
                  ELSE IF cur.name = "ASIAN" THEN Frac(7, 10)
                  ELSE Frac(5, 10)
        time_boost == IF cur.time_remaining > 0
                      THEN (IF cur.time_remaining >= 2 THEN Frac(11, 10) ELSE Frac(9, 10))
                      ELSE Frac(1, 1)
        final_score == FracMul(FracMul(cur.score_boost, factor), time_boost)
    IN [raised |-> cur.raised,
        optimal |-> FracGe(final_score, Frac(1, 1)),
        optimality_score |-> final_score]

\* get_session_recommendation: <<>> when the call raises
GetSessionRecommendation(signal, now) ==
    LET a == AnalyzeSessionOptimality(signal, now)
    IN IF a.raised THEN <<>>
       ELSE <<[optimal |-> a.optimal, optimality_score |-> a.optimality_score,
               current_session |-> GetCurrentSession(now).name]>>

(***************************************************************************)
(* SignalStore.  Prices are in hundredths, the grain of round(x, 2); time  *)
(* is the index of the H1 bar forming when utcnow() is read.  db_ok is     *)
(* false when sqlite3 raises.                                              *)
(***************************************************************************)
\* get_signal_key: the digest of symbol:tf:side:entry, held as those fields
GetSignalKey(signal) == <<signal.symbol, signal.tf, signal.side, signal.entry>>

\* is_duplicate_signal
IsDuplicateSignal(signal_hash, rows, db_ok) ==
    IF ~db_ok THEN TRUE
    ELSE \E i \in DOMAIN rows : rows[i].signal_hash = signal_hash

\* the row save_signal inserts
SignalRow(signal, id, now) ==
    [id |-> id, ts_utc |-> now,
     symbol |-> signal.symbol, tf |-> signal.tf,
     side |-> signal.side, entry |-> signal.entry,
     sl |-> signal.sl, tp1 |-> signal.tps[1],
     tp2 |-> signal.tps[2], tp3 |-> signal.tps[3],
     score |-> signal.score,
     signal_hash |-> GetSignalKey(signal), active |-> TRUE]

\* save_signal on a table whose signal_hash column is not UNIQUE
SaveSignalNoUnique(signal, rows, db_ok, now) ==
    IF ~db_ok \/ "checklist" \notin DOMAIN signal
    THEN [id |-> -1, rows |-> rows]
    ELSE [id |-> Len(rows) + 1,
          rows |-> Append(rows, SignalRow(signal, Len(rows) + 1, now))]

\* save_signal: the id returned and the rows afterwards
SaveSignal(signal, rows, db_ok, now) ==
    IF \/ ~db_ok
       \/ "checklist" \notin DOMAIN signal          \* KeyError
       \/ \E i \in DOMAIN rows : rows[i].signal_hash = GetSignalKey(signal)
    THEN [id |-> -1, rows |-> rows]
    ELSE [id |-> Len(rows) + 1,
          rows |-> Append(rows, SignalRow(signal, Len(rows) + 1, now))]

RECURSIVE NewestFirst(_)
NewestFirst(rows) ==
    IF rows = <<>> THEN <<>>
    ELSE <<rows[Len(rows)]>> \o NewestFirst(SubSeq(rows, 1, Len(rows) - 1))

\* get_open_signals
GetOpenSignals(symbol, rows, db_ok) ==
    IF ~db_ok THEN <<>>
    ELSE NewestFirst(SelectSeq(rows, LAMBDA r : r.active /\ r.symbol = symbol))

\* record_outcome without the update that deactivates the signal
RecordOutcomeKeepActive(signal_id, hit_type, price, db, now) ==
    [signals |-> db.signals,
     outcomes |->
        Append(db.outcomes,
               [signal_id |-> signal_id, hit_type |-> hit_type,
                price |-> price, ts_utc |-> now])]

\* record_outcome on the store db = [signals, outcomes]
RecordOutcome(signal_id, hit_type, price, db, now) ==
    [signals |->
        [i \in DOMAIN db.signals |->
            IF db.signals[i].id = signal_id /\ hit_type \in {"SL", "TP3"}
            THEN [db.signals[i] EXCEPT !.active = FALSE]
            ELSE db.signals[i]],
     outcomes |->
        Append(db.outcomes,
               [signal_id |-> signal_id, hit_type |-> hit_type,
                price |-> price, ts_utc |-> now])]

TpName(tp_level) == CASE tp_level = 1 -> "TP1" [] tp_level = 2 -> "TP2" [] tp_level = 3 -> "TP3"

\* is_tp_recorded
IsTpRecorded(signal_id, tp_level, db) ==
    \E i \in DOMAIN db.outcomes :
        db.outcomes[i].signal_id = signal_id /\ db.outcomes[i].hit_type = TpName(tp_level)

(***************************************************************************)
(* EliteSignalEngine: outcomes                                             *)
(***************************************************************************)
\* the stop test of _evaluate_elite_outcome without the close
SlHitOnTouch(signal, high, low, close) ==
    \/ (signal.side = "BUY" /\ low <= signal.sl)
    \/ (signal.side # "BUY" /\ high >= signal.sl)

\* sl_hit of _evaluate_elite_outcome
SlHit(signal, high, low, close) ==
    \/ (signal.side = "BUY" /\ low <= signal.sl /\ close <= signal.sl)
    \/ (signal.side # "BUY" /\ high >= signal.sl /\ close >= signal.sl)

\* tp_hit of _evaluate_elite_outcome
TpHit(signal, tp_level, high, low) ==
    \/ (signal.side = "BUY" /\ high >= tp_level)
    \/ (signal.side # "BUY" /\ low <= tp_level)

\* one round of the loop over the three targets
EvaluateTp(signal, i, tp_level, high, low, db, now) ==
    IF TpHit(signal, tp_level, high, low) /\ ~IsTpRecorded(signal.id, i, db)
    THEN RecordOutcome(signal.id, TpName(i), tp_level, db, now)
    ELSE db

\* _evaluate_elite_outcome going on to the targets after a stop
EvaluateEliteOutcomeNoReturn(signal, high, low, close, db, now) ==
    LET db0 == IF SlHit(signal, high, low, close)
               THEN RecordOutcome(signal.id, "SL", signal.sl, db, now) ELSE db
        db1 == EvaluateTp(signal, 1, signal.tp1, high, low, db0, now)
        db2 == EvaluateTp(signal, 2, signal.tp2, high, low, db1, now)
    IN EvaluateTp(signal, 3, signal.tp3, high, low, db2, now)

\* _evaluate_elite_outcome walking the targets from the third to the first
EvaluateEliteOutcomeReversed(signal, high, low, close, db, now) ==
    IF SlHit(signal, high, low, close)
    THEN RecordOutcome(signal.id, "SL", signal.sl, db, now)
    ELSE LET db3 == EvaluateTp(signal, 3, signal.tp3, high, low, db, now)
             db2 == EvaluateTp(signal, 2, signal.tp2, high, low, db3, now)
         IN EvaluateTp(signal, 1, signal.tp1, high, low, db2, now)

\* _evaluate_elite_outcome: the store afterwards
EvaluateEliteOutcome(signal, high, low, close, db, now) ==
    IF SlHit(signal, high, low, close)
    THEN RecordOutcome(signal.id, "SL", signal.sl, db, now)
    ELSE LET db1 == EvaluateTp(signal, 1, signal.tp1, high, low, db, now)
             db2 == EvaluateTp(signal, 2, signal.tp2, high, low, db1, now)
         IN EvaluateTp(signal, 3, signal.tp3, high, low, db2, now)

RECURSIVE EvaluateAll(_, _, _, _)
\* the loop of _check_elite_outcomes over the open signals
EvaluateAll(open_signals, latest_data, db, now) ==
    IF open_signals = <<>> THEN db
    ELSE EvaluateAll(Tail(open_signals), latest_data,
                     EvaluateEliteOutcome(Head(open_signals), latest_data.h,
                                          latest_data.l, latest_data.c, db, now),
                     now)

\* _check_elite_outcomes: the store afterwards; latest_data is <<>> for None
CheckEliteOutcomes(symbol, db, latest_data, db_ok, now) ==
    LET open_signals == GetOpenSignals(symbol, db.signals, db_ok)
    IN IF open_signals = <<>> \/ latest_data = <<>> THEN db
       ELSE EvaluateAll(open_signals, latest_data[1], db, now)

(***************************************************************************)
(* EliteSignalEngine: the pipeline of one candidate.  Each stage takes and *)
(* returns the progress st = [status, calls, signal, ...]; calls is the    *)
(* list of the stages entered so far, and a stage does nothing once the    *)
(* status is no longer RUNNING (the handler has returned or raised).       *)
(***************************************************************************)
\* bars _find_session_highs and _find_session_lows need and look back over
SessionLookback == 100

RECURSIVE SortedByStrength(_)
\* sorted(zones, key=strength, reverse=True): stable among equal strengths
SortedByStrength(zones) ==
    IF zones = <<>> THEN <<>>
    ELSE LET i == CHOOSE i \in DOMAIN zones :
                      /\ \A j \in DOMAIN zones : zones[j].strength10 <= zones[i].strength10
                      /\ \A j \in 1..(i - 1) : zones[j].strength10 < zones[i].strength10
         IN <<zones[i]>> \o SortedByStrength(SubSeq(zones, 1, i - 1)
                                               \o SubSeq(zones, i + 1, Len(zones)))

\* _find_equal_highs, _find_equal_lows: the pivots of the series, which the
\* series record carries as zones
FindEqualHighs(df, tf) == df.equal_highs
FindEqualLows(df, tf) == df.equal_lows

\* _find_session_highs
FindSessionHighs(df, tf) ==
    IF df.n >= SessionLookback
    THEN <<[price |-> df.hi100, type |-> "session_high", strength10 |-> 8,
            timeframe |-> tf]>>
    ELSE <<>>

\* _find_session_lows
FindSessionLows(df, tf) ==
    IF df.n >= SessionLookback
    THEN <<[price |-> df.lo100, type |-> "session_low", strength10 |-> 8,
            timeframe |-> tf]>>
    ELSE <<>>

\* find_liquidity_zones
FindLiquidityZones(df, tf) ==
    SortedByStrength(FindEqualHighs(df, tf) \o FindEqualLows(df, tf)
                     \o FindSessionHighs(df, tf) \o FindSessionLows(df, tf))

\* round(x, 2) of a price held in hundredths
Round2(a) == RoundHalfEven(a)
FracSub(a, b) == FracNorm(Frac(a.num * b.den - b.num * a.den, a.den * b.den))

\* _build_elite_signal
BuildEliteSignal(symbol, ob, elite_score, score_breakdown, df, regime_info, config) ==
    LET entry == Frac(ob.body_high + ob.body_low, 2)
        atr_val == IF "atr_val" \in DOMAIN df THEN df.atr_val ELSE Frac(df.atr, 1)
        quarter == FracMul(atr_val, Frac(1, 4))
        sl == IF ob.bullish THEN FracSub(Frac(ob.wick_low, 1), quarter)
              ELSE FracAdd(Frac(ob.wick_high, 1), quarter)
        risk == IF FracLt(entry, sl) THEN FracSub(sl, entry) ELSE FracSub(entry, sl)
        regime_multiplier ==
            DictGet(DictGet(regime_info, "adaptive_params", <<>>),
                    "risk_multiplier", Frac(1, 1))
        adaptive_risk_multiplier ==
            FracMin(Frac(2, 1), FracMax(Frac(1, 2), regime_multiplier))
        tp(multi) ==
            LET step == FracMul(risk, FracMul(Frac(multi, 1), adaptive_risk_multiplier))
            IN Round2(IF ob.bullish THEN FracAdd(entry, step) ELSE FracSub(entry, step))
    IN [symbol |-> symbol, tf |-> "H1",
        side |-> IF ob.bullish THEN "BUY" ELSE "SELL",
        entry |-> Round2(entry), sl |-> Round2(sl),
        tps |-> [i \in DOMAIN config.risk_r_multiples |-> tp(config.risk_r_multiples[i])],
        score |-> elite_score, score_breakdown |-> score_breakdown,
        ob |-> ob, risk_usd |-> Round2(risk), atr_current |-> Round2(atr_val),
        regime_info |-> regime_info]

Progress(status, calls, signal) ==
    [status |-> status, calls |-> calls, signal |-> signal, id |-> 0]
Enter(st, stage) == [st EXCEPT !.calls = Append(@, stage)]
WithKey(st, key, value) ==
    [st EXCEPT !.signal = <<[k \in {key} |-> value] @@ st.signal[1]>>]

\* adaptive_threshold of _analyze_elite_setup
AdaptiveThreshold(regime_info, config) ==
    DictGet(DictGet(regime_info, "adaptive_params", <<>>), "score_threshold",
            config.min_elite_score)

\* _analyze_elite_setup; data.best_ob is <<>> when no order block is found
AnalyzeEliteSetup(symbol, data, regime_info, config) ==
    IF data.best_ob = <<>> THEN Progress("NO_SETUP", <<>>, <<>>)
    ELSE
    LET ob == data.best_ob[1]
        liquidity_zones == FindLiquidityZones(data.h1, "H1")
        scored == CalculateEliteScore(data.d1, data.h4, data.h1, ob,
                                      data.fu_candle, liquidity_zones)
        adaptive_threshold == AdaptiveThreshold(regime_info, config)
    IN IF scored.score < adaptive_threshold
       THEN Progress("BELOW_THRESHOLD", <<"score_threshold">>, <<>>)
       ELSE Progress("RUNNING", <<"score_threshold">>,
                     <<BuildEliteSignal(symbol, ob, scored.score,
                                        scored.score_breakdown, data.h1,
                                        regime_info, config)>>)

\* _handle_elite_signal: deduplication check
DedupStage(st, rows, db_ok) ==
    IF st.status # "RUNNING" THEN st
    ELSE IF IsDuplicateSignal(GetSignalKey(st.signal[1]), rows, db_ok)
    THEN [Enter(st, "dedup") EXCEPT !.status = "DUPLICATE"]
    ELSE Enter(st, "dedup")

\* _handle_elite_signal: news guard check
NewsStage(st, config, in_blackout) ==
    IF st.status # "RUNNING" \/ ~config.news_enabled THEN st
    ELSE IF in_blackout
    THEN [Enter(st, "news") EXCEPT !.status = "NEWS_BLACKOUT"]
    ELSE Enter(st, "news")

\* _handle_elite_signal: correlation analysis
CorrelationStage(st, config, correlation_insights) ==
    IF st.status # "RUNNING" \/ ~config.correlation_checks THEN st
    ELSE LET st1 == WithKey(Enter(st, "correlation"), "correlation_insights",
                            correlation_insights)
         IN IF IsVeto(correlation_insights)
            THEN [st1 EXCEPT !.status = "CORRELATION_VETO"]
            ELSE st1

\* the flow stage with the return after the veto left out
FlowStageNoReturn(st, flow_analysis) ==
    IF st.status # "RUNNING" THEN st
    ELSE WithKey(Enter(st, "flow"), "flow_analysis", flow_analysis)

\* _handle_elite_signal: institutional flow analysis
FlowStage(st, flow_analysis) ==
    IF st.status # "RUNNING" THEN st
    ELSE LET st1 == WithKey(Enter(st, "flow"), "flow_analysis", flow_analysis)
         IN IF IsVeto(flow_analysis)
            THEN [st1 EXCEPT !.status = "FLOW_VETO"]
            ELSE st1

\* _handle_elite_signal: session optimization; the exception of the
\* analyzer leaves the handler
SessionStage(st, config, now) ==
    IF st.status # "RUNNING" \/ ~config.session_aware THEN st
    ELSE LET session_recommendation == GetSessionRecommendation(st.signal[1], now)
         IN IF session_recommendation = <<>>
            THEN [Enter(st, "session") EXCEPT !.status = "RAISED"]
            ELSE WithKey(Enter(st, "session"), "session_analysis",
                         session_recommendation[1])

\* _handle_elite_signal: adaptive position sizing
SizingStage(st, regime_info, config) ==
    IF st.status # "RUNNING" THEN st
    ELSE [Enter(st, "sizing") EXCEPT
            !.signal = <<ApplyAdaptiveSizing(st.signal[1], regime_info,
                                             config.risk_per_trade)>>]

\* _handle_elite_signal: persist, and notify when the id is positive
SaveStage(st, rows, db_ok, now) ==
    IF st.status # "RUNNING" THEN st
    ELSE LET saved == SaveSignal(st.signal[1], rows, db_ok, now)
         IN IF saved.id > 0
            THEN [Enter(Enter(st, "save"), "notify") EXCEPT
                    !.status = "ACCEPTED", !.id = saved.id]
            ELSE [Enter(st, "save") EXCEPT !.status = "SAVE_FAILED", !.id = saved.id]

\* the states of the chart generator and Telegram: both work, or
\* create_elite_chart raises, or send_photo fails
NotifierStates == {"ok", "chart_fails", "send_fails"}
\* _send_elite_notification: the ids delivered afterwards; a failure of the
\* chart or of the send is logged and nothing else is done
SendEliteNotification(signal_id, state, done) ==
    IF state = "ok" THEN Append(done, signal_id) ELSE done
RECURSIVE SendEliteNotifications(_, _, _)
\* the notifications of the signals one run_cycle stored
SendEliteNotifications(ids, state, done) ==
    IF ids = <<>> THEN done
    ELSE SendEliteNotifications(Tail(ids), state,
                                SendEliteNotification(Head(ids), state, done))

\* _handle_elite_signal
HandleEliteSignal(st, regime_info, config, rows, db_ok, in_blackout, correlation_insights, flow_analysis, hour, now) ==
    SaveStage(
      SizingStage(
        SessionStage(
          FlowStage(
            CorrelationStage(
              NewsStage(DedupStage(st, rows, db_ok), config, in_blackout),
              config, correlation_insights),
            flow_analysis),
          config, hour),
        regime_info, config),
      rows, db_ok, now)

(***************************************************************************)
(* Values of the variables a specification does not use.                   *)
(***************************************************************************)
CorrIdle == corrSide = "BUY" /\ corrRates = <<>> /\ corrRunA = <<>> /\ corrRunB = <<>>
FlowIdle == flowDf = Series(0, <<>>) /\ recent_blocks = <<>> /\ flowOut = <<>>
SizIdle == sizBase = Frac(1, 100) /\ sizRegime = <<>> /\ sizSignal = <<>> /\ sizOut = <<>>
ScoreIdle == scIn = <<>> /\ scOut = <<>>
DetIdle == detIn = <<>> /\ detOut = <<>>
EngIdle ==
    /\ cfg = <<>> /\ bar = 0 /\ latest = <<>> /\ signals = <<>> /\ outcomes = <<>>
    /\ sent = <<>> /\ last = <<>> /\ checked = <<>> /\ cycle = <<>>
    /\ notifier = "ok" /\ delivered = <<>>

(***************************************************************************)
(* Specification of the flow detector: the series grows bar by bar and the *)
(* detector is called on it.                                               *)
(***************************************************************************)
\* bars appended after the initial ones, and how many of them may be spikes
MaxTail == 12
MaxSpikes == 2

SpikeBars ==
    {[o |-> 10, c |-> 11, v |-> 2, avgv |-> 1, atr |-> 1],   \* BUY block, strength 1.6
     [o |-> 12, c |-> 10, v |-> 3, avgv |-> 1, atr |-> 2],   \* SELL block, strength 2.0
     [o |-> 10, c |-> 12, v |-> 3, avgv |-> 0, atr |-> 0]}   \* degenerate means
FlowBars == {QuietBar} \cup SpikeBars

Spikes(df) == Cardinality({i \in 1..Len(df.tail) : df.tail[i] \in SpikeBars})

FlowInit ==
    /\ \E warm \in {0, FlowFirstIdx - 1, FlowFirstIdx} : flowDf = Series(warm, <<>>)
    /\ recent_blocks = <<>>
    /\ flowOut = <<>>
    /\ CorrIdle /\ SizIdle /\ ScoreIdle /\ EngIdle /\ DetIdle

\* the market closes one more bar
FlowAppendBar ==
    /\ Len(flowDf.tail) < MaxTail
    /\ \E b \in FlowBars :
          /\ b \in SpikeBars => Spikes(flowDf) < MaxSpikes
          /\ flowDf' = Series(flowDf.warm, Append(flowDf.tail, b))
    /\ flowOut' = <<>>
    /\ UNCHANGED recent_blocks
    /\ UNCHANGED <<corrVars, sizVars, scVars, detVars, engVars>>

\* get_flow_analysis on the current series for a signal of side `side`
FlowGetAnalysis ==
    \E side \in Sides :
      \E r \in {GetFlowAnalysis(side, flowDf)} :
           /\ recent_blocks' = r.blocks
           /\ flowOut' = <<[side |-> side,
                            aligned |-> r.aligned,
                            alignment_score |-> r.alignment_score,
                            recent_blocks_count |-> r.recent_blocks_count,
                            before |-> recent_blocks]>>
           /\ UNCHANGED flowDf
           /\ UNCHANGED <<corrVars, sizVars, scVars, detVars, engVars>>

FlowNext == FlowAppendBar \/ FlowGetAnalysis

(***************************************************************************)
(* Specification of the correlation guard: inputs fixed at Init, two calls *)
(* on the same inputs.                                                     *)
(***************************************************************************)
CorrInit ==
    /\ corrSide \in Sides
    /\ corrRates \in [Assets -> RatesOutages \cup RatesData]
    /\ corrRunA = <<>>
    /\ corrRunB = <<>>
    /\ FlowIdle /\ SizIdle /\ ScoreIdle /\ EngIdle /\ DetIdle

CorrFirstCall ==
    /\ corrRunA = <<>>
    /\ \E r \in CorrelationResults(corrSide, corrRates) : corrRunA' = <<r>>
    /\ UNCHANGED <<corrSide, corrRates, corrRunB>>
    /\ UNCHANGED <<flowVars, sizVars, scVars, detVars, engVars>>

CorrSecondCall ==
    /\ corrRunA # <<>>
    /\ corrRunB = <<>>
    /\ \E r \in CorrelationResults(corrSide, corrRates) : corrRunB' = <<r>>
    /\ UNCHANGED <<corrSide, corrRates, corrRunA>>
    /\ UNCHANGED <<flowVars, sizVars, scVars, detVars, engVars>>

CorrNext == CorrFirstCall \/ CorrSecondCall

SpecCorr == CorrInit /\ [][CorrNext]_vars

SpecFlow == FlowInit /\ [][FlowNext]_vars

(***************************************************************************)
(* Specification of adaptive sizing: a signal that reached the sizing      *)
(* stage, with or without the results of the optional gates.               *)
(***************************************************************************)
\* config.trading.risk_per_trade values tried
BaseRisks == {Frac(1, 200), Frac(1, 100), Frac(2, 100), Frac(5, 100)}
\* gate scores tried: alignment scores of the two gates, session scores
SizCorrScores == {Frac(0, 56), Frac(20, 56), Frac(28, 56), Frac(56, 56)}
SizFlowScores == {Frac(0, 1), Frac(1, 2), Frac(3, 5), Frac(1, 1)}
SizSessionScores == {Frac(1, 4), Frac(77, 125), Frac(6, 5), Frac(297, 125)}
\* scores the scorer can return
Scores == 1..10

\* the optional keys of the signal: absent, or one of the values
OptionalKey(key, field, values) ==
    {<<>>} \cup {[k \in {key} |-> [f \in {field} |-> v]] : v \in values}

SizInit ==
    /\ sizBase \in BaseRisks
    /\ sizRegime \in RegimeInfos
    /\ \E sc \in Scores,
          c \in OptionalKey("correlation_insights", "alignment_score", SizCorrScores),
          f \in OptionalKey("flow_analysis", "alignment_score", SizFlowScores),
          se \in OptionalKey("session_analysis", "optimality_score", SizSessionScores) :
          sizSignal = [score |-> sc] @@ c @@ f @@ se
    /\ sizOut = <<>>
    /\ CorrIdle /\ FlowIdle /\ ScoreIdle /\ EngIdle /\ DetIdle

SizApply ==
    /\ sizOut = <<>>
    /\ sizOut' = <<ApplyAdaptiveSizing(sizSignal, sizRegime, sizBase)>>
    /\ UNCHANGED <<sizBase, sizRegime, sizSignal>>
    /\ UNCHANGED <<corrVars, flowVars, scVars, detVars, engVars>>

SizNext == SizApply

SpecSizing == SizInit /\ [][SizNext]_vars

(***************************************************************************)
(* Specification of the scorer: calculate_elite_score is applied to one    *)
(* set of arguments.  One argument at a time ranges over all its values    *)
(* while each of the others is a weak or a strong one.                     *)
(***************************************************************************)
\* len of the series handed to the scorer
ScoreBars == 100
\* momentum of the last ten closes: (rising, falling)
Momenta == {<<0, 9>>, <<2, 7>>, <<6, 3>>, <<7, 2>>, <<9, 0>>}

ScoreOb(idx, bullish, tf, disp, vol, qual) ==
    [idx |-> idx, bullish |-> bullish, body_low |-> 100, body_high |-> 104,
     wick_low |-> 98, wick_high |-> 106, tf |-> tf, displacement10 |-> disp,
     volume |-> vol, quality10 |-> qual]
\* an H1 block lies inside h1; an H4 block may lie beyond its length
ScoreObs ==
    {o \in {ScoreOb(i, b, t, d, v, q) :
                i \in {50, 120}, b \in BOOLEAN, t \in {"H4", "H1"},
                d \in {10, 15, 20, 30}, v \in {0, 12, 15}, q \in {5, 6, 8}} :
        o.tf = "H1" => o.idx < ScoreBars}
ScoreObEnds == {ScoreOb(50, TRUE, "H1", 10, 0, 5), ScoreOb(50, TRUE, "H4", 30, 15, 8)}

ScoreFu(dir, body, cf, vr) ==
    <<[idx |-> 98, direction |-> dir, body_size |-> body, range_size |-> 20,
       close_frac10 |-> cf, volume_ratio10 |-> vr, strength10 |-> 10]>>
ScoreFus ==
    {<<>>} \cup {ScoreFu(d, b, cf, vr) :
                    d \in {"bullish", "bearish"}, b \in {0, 5, 8, 12},
                    cf \in {3, 4, 5, 6, 7}, vr \in {10, 15, 20}}
ScoreFuEnds == {<<>>, ScoreFu("bearish", 12, 3, 20)}

ScoreD1(n, c, e21, e50, e100, m) ==
    [n |-> n, c |-> c, ema21 |-> e21, ema50 |-> e50, ema100 |-> e100,
     up |-> m[1], down |-> m[2]]
ScoreD1s ==
    {ScoreD1(n, c, e[1], e[2], e[3], m) :
        n \in {9, ScoreBars}, c \in {1, 2, 3},
        e \in {<<3, 2, 1>>, <<1, 2, 3>>, <<2, 2, 2>>, <<2, 3, 1>>}, m \in Momenta}
ScoreD1Ends == {ScoreD1(ScoreBars, 1, 1, 2, 3, <<0, 9>>),
                ScoreD1(ScoreBars, 3, 3, 2, 1, <<9, 0>>)}

\* the last close, the ATR and the momentum of h1
ScorePrice(c, a, m) == [c |-> c, atr |-> a, up |-> m[1], down |-> m[2]]
ScorePrices ==
    {ScorePrice(c, a, m) :
        c \in {102, 103, 105, 107, 110, 112, 113}, a \in {0, 10}, m \in Momenta}
ScorePriceEnds == {ScorePrice(113, 10, <<0, 9>>), ScorePrice(102, 10, <<9, 0>>)}

\* the volume means of h1
ScoreVolume(rv, av, ao) == [recent_vol |-> rv, avg_vol |-> av, avg_at_ob |-> ao]
ScoreVolumes ==
    {ScoreVolume(rv, av, ao) :
        rv \in {10, 12, 15}, av \in {0, 10}, ao \in {<<>>, <<0>>, <<10>>}}
ScoreVolumeEnds == {ScoreVolume(10, 10, <<>>), ScoreVolume(15, 10, <<10>>)}

\* the last bars of a series around its last close c: the wicks of the last
\* bar and the extremes before it
ScoreTail(up, dn, h2, l2, hi9, lo9, hi19, lo19, v, vhi, vlo) ==
    [up_wick |-> up, down_wick |-> dn, h2 |-> h2, l2 |-> l2, hi9 |-> hi9,
     lo9 |-> lo9, hi19 |-> hi19, lo19 |-> lo19, v |-> v, vhi |-> vhi, vlo |-> vlo]
ScoreTails ==
    {ScoreTail(1, 1, 106, 99, 108, 97, 109, 96, 10, 10, 10),    \* inside range
     ScoreTail(1, 1, 100, 98, 101, 97, 101, 96, 10, 10, 10),    \* closes above
     ScoreTail(1, 1, 120, 118, 121, 116, 122, 115, 10, 10, 10), \* closes below
     ScoreTail(20, 1, 106, 99, 108, 97, 109, 96, 30, 10, 10),   \* wick above
     ScoreTail(1, 20, 106, 99, 108, 97, 109, 96, 30, 10, 10),   \* wick below
     ScoreTail(0, 0, 106, 99, 106, 99, 106, 99, 10, 10, 10)}    \* flat
ScoreTailEnds == {ScoreTail(1, 1, 106, 99, 108, 97, 109, 96, 10, 10, 10)}

ScoreGap(type, idx, low, high) == [type |-> type, idx |-> idx, low |-> low, high |-> high]
ScoreGapSet ==
    {ScoreGap(t, i, lo, lo + 3) :
        t \in {"bullish_fvg", "bearish_fvg"}, i \in {80, 95}, lo \in {90, 101}}
ScoreGaps ==
    {<<>>} \cup {<<g>> : g \in ScoreGapSet}
           \cup {<<g1, g2>> : g1 \in ScoreGapSet, g2 \in ScoreGapSet}
ScoreGapEnds == {<<>>, <<ScoreGap("bullish_fvg", 95, 90, 93),
                         ScoreGap("bearish_fvg", 95, 101, 104)>>}

ScoreZone(p, t, st) == [price |-> p, type |-> t, strength10 |-> st, timeframe |-> "H1"]
ScoreZoneSet ==
    {ScoreZone(p, t, st) :
        p \in {102, 108, 130},
        t \in {"equal_high", "equal_low", "session_high", "session_low"},
        st \in {5, 8}}
ScoreZones ==
    {<<>>} \cup {<<z>> : z \in ScoreZoneSet}
           \cup {<<z1, z2>> : z1 \in {z \in ScoreZoneSet : z.type = "equal_low"},
                               z2 \in {z \in ScoreZoneSet : z.type \in {"equal_low", "equal_high"}}}
ScoreZoneEnds == {<<>>, <<ScoreZone(102, "equal_low", 8)>>}

ScoreH4Avgs == {<<>>, <<0>>, <<10>>}
ScoreH4AvgEnds == {<<>>, <<10>>}

\* the arguments that range over all their values, one at a time
ScoreFocuses == {"ob", "fu", "d1", "price", "volume", "tail", "h4tail",
                 "gaps", "zones", "h4avg"}
ScorePick(focus, name, all, ends) == IF focus = name THEN all ELSE ends

\* the series record of the last bars `t` around the close `c`
ScoreSeries(n, c, t) ==
    [n |-> n, c |-> c, h |-> c + t.up_wick, l |-> c - t.down_wick,
     h2 |-> t.h2, l2 |-> t.l2, hi9 |-> t.hi9, lo9 |-> t.lo9,
     hi19 |-> t.hi19, lo19 |-> t.lo19, v |-> t.v, vhi |-> t.vhi, vlo |-> t.vlo]

ScoreInputs(focus) ==
    {[d1 |-> d,
      h4 |-> [avg_at_ob |-> a4] @@ ScoreSeries(ScoreBars + 30, pr.c, t4),
      h1 |-> [atr |-> pr.atr, up |-> pr.up, down |-> pr.down, gaps |-> g]
             @@ vo @@ ScoreSeries(ScoreBars, pr.c, t1),
      ob |-> o, fu_candle |-> f, liquidity_zones |-> z] :
        d \in ScorePick(focus, "d1", ScoreD1s, ScoreD1Ends),
        a4 \in ScorePick(focus, "h4avg", ScoreH4Avgs, ScoreH4AvgEnds),
        t4 \in ScorePick(focus, "h4tail", ScoreTails, ScoreTailEnds),
        pr \in ScorePick(focus, "price", ScorePrices, ScorePriceEnds),
        g \in ScorePick(focus, "gaps", ScoreGaps, ScoreGapEnds),
        vo \in ScorePick(focus, "volume", ScoreVolumes, ScoreVolumeEnds),
        t1 \in ScorePick(focus, "tail", ScoreTails, ScoreTailEnds),
        o \in ScorePick(focus, "ob", ScoreObs, ScoreObEnds),
        f \in ScorePick(focus, "fu", ScoreFus, ScoreFuEnds),
        z \in ScorePick(focus, "zones", ScoreZones, ScoreZoneEnds)}

ScoreInit ==
    /\ \E focus \in ScoreFocuses : \E in \in ScoreInputs(focus) : scIn = <<in>>
    /\ scOut = <<>>
    /\ CorrIdle /\ FlowIdle /\ SizIdle /\ EngIdle /\ DetIdle

ScoreApply ==
    /\ scOut = <<>>
    /\ LET in == scIn[1]
       IN scOut' = <<CalculateEliteScore(in.d1, in.h4, in.h1, in.ob,
                                         in.fu_candle, in.liquidity_zones)>>
    /\ UNCHANGED scIn
    /\ UNCHANGED <<corrVars, flowVars, sizVars, detVars, engVars>>

ScoreNext == ScoreApply

SpecScore == ScoreInit /\ [][ScoreNext]_vars

(***************************************************************************)
(* Specifications of the engine.  run_cycle handles the one configured     *)
(* symbol: _process_symbol_elite, then _check_elite_outcomes.  The         *)
(* database file outlives the process, so the store may hold rows of       *)
(* earlier runs when the engine is built.  SpecPipeline varies what the    *)
(* candidate meets on its way; SpecOutcomes varies the bars the open       *)
(* signals are checked against.                                            *)
(***************************************************************************)
\* H1 bars that open after the engine is built
MaxBar == 1

Symbol == "XAUUSD"
Configs ==
    [correlation_checks : BOOLEAN, session_aware : BOOLEAN, news_enabled : BOOLEAN,
     min_elite_score : {7}, risk_per_trade : {Frac(2, 100)},
     risk_r_multiples : {<<1, 2, 3>>}, symbols : {<<Symbol>>}]

\* rows of earlier runs, written while bar 0 was forming
StoredRow(id, side, entry, sl, tp1, tp2, tp3) ==
    [id |-> id, ts_utc |-> 0, symbol |-> Symbol, tf |-> "H1", side |-> side,
     entry |-> entry, sl |-> sl, tp1 |-> tp1, tp2 |-> tp2, tp3 |-> tp3,
     score |-> 8, signal_hash |-> <<Symbol, "H1", side, entry>>, active |-> TRUE]
StoredBuy(id) == StoredRow(id, "BUY", 102, 96, 108, 114, 120)
StoredSell(id) == StoredRow(id, "SELL", 103, 108, 98, 93, 88)

\* the last bar get_rates can return: <<>> for None
LatestBar(h, l, c) == <<[h |-> h, l |-> l, c |-> c]>>
QuietBars == {LatestBar(104, 100, 102)}   \* between all levels
LatestBars ==
    QuietBars \cup
    {<<>>,
     LatestBar(109, 95, 101),       \* wicks through 108 and 96, close inside
     LatestBar(109, 95, 95),        \* both sides touched, close at 95
     LatestBar(109, 95, 109),       \* both sides touched, close at 109
     LatestBar(121, 100, 115),      \* rally through 120
     LatestBar(104, 87, 90)}        \* slump through 88

\* what _fetch_elite_data and the detectors give for the symbol
EngData(d, ob, f, pr, vo, g, eq) ==
    [d1 |-> d,
     h4 |-> [avg_at_ob |-> <<10>>]
            @@ ScoreSeries(ScoreBars + 30, pr.c, CHOOSE t \in ScoreTailEnds : TRUE),
     h1 |-> [atr |-> pr.atr, up |-> pr.up, down |-> pr.down, gaps |-> g,
             hi100 |-> 125, lo100 |-> 85,
             equal_highs |-> SelectSeq(eq, LAMBDA z : z.type = "equal_high"),
             equal_lows |-> SelectSeq(eq, LAMBDA z : z.type = "equal_low")]
            @@ vo @@ ScoreSeries(ScoreBars, pr.c, CHOOSE t \in ScoreTailEnds : TRUE),
     best_ob |-> ob, fu_candle |-> f]
\* no order block
EngNoBlock ==
    EngData(ScoreD1(ScoreBars, 3, 3, 2, 1, <<9, 0>>), <<>>, <<>>,
            ScorePrice(102, 8, <<9, 0>>), ScoreVolume(15, 10, <<10>>), <<>>, <<>>)
\* a weak bullish block
EngWeakBuy ==
    EngData(ScoreD1(ScoreBars, 1, 1, 2, 3, <<0, 9>>),
            <<ScoreOb(50, TRUE, "H1", 10, 0, 5)>>, <<>>,
            ScorePrice(113, 8, <<0, 9>>), ScoreVolume(10, 10, <<>>), <<>>, <<>>)
\* a bullish block of middling score
EngMiddlingBuy ==
    EngData(ScoreD1(ScoreBars, 1, 1, 2, 3, <<0, 9>>),
            <<ScoreOb(50, TRUE, "H4", 30, 15, 8)>>, <<>>,
            ScorePrice(102, 8, <<0, 9>>), ScoreVolume(15, 10, <<10>>), <<>>,
            <<ScoreZone(110, "equal_high", 10)>>)
\* a strong bullish block above equal lows
EngStrongBuy ==
    EngData(ScoreD1(ScoreBars, 3, 3, 2, 1, <<9, 0>>),
            <<ScoreOb(50, TRUE, "H4", 30, 15, 8)>>, ScoreFu("bearish", 12, 3, 20),
            ScorePrice(102, 8, <<9, 0>>), ScoreVolume(15, 10, <<10>>),
            <<ScoreGap("bullish_fvg", 95, 90, 93)>>,
            <<ScoreZone(101, "equal_low", 10), ScoreZone(99, "equal_low", 10)>>)
\* a strong bearish block
EngStrongSell ==
    EngData(ScoreD1(ScoreBars, 1, 1, 2, 3, <<0, 9>>),
            <<ScoreOb(50, FALSE, "H4", 30, 15, 8)>>, ScoreFu("bullish", 12, 7, 20),
            ScorePrice(102, 8, <<0, 9>>), ScoreVolume(15, 10, <<10>>),
            <<ScoreGap("bearish_fvg", 95, 110, 113)>>, <<>>)
EngDatas == {EngNoBlock, EngWeakBuy, EngMiddlingBuy, EngStrongBuy, EngStrongSell}

EngRegimes == {UnknownRegime, RegimeInfo("HIGH_VOLATILITY")}
\* the basket as the provider serves it: down, or every asset trending one way
EngBasketDown == [a \in Assets |-> RatesRaises]
EngBasket(trend) ==
    [a \in Assets |-> [kind |-> "df", bars |-> TrendMinBars + 1, trend |-> trend]]
EngRates == {EngBasketDown, EngBasket("BULLISH"), EngBasket("BEARISH")}
\* the H1 bars as the flow detector reads them
EngQuietFlow == Series(ScoreBars, <<>>)
EngFlows == {EngQuietFlow} \cup {Series(ScoreBars - 1, <<b>>) : b \in SpikeBars}
\* UTC hours tried: inside the LONDON and NEW_YORK windows, and after hours
EngHours == {14, 22}

\* what is kept of the progress of a candidate
Summary(st) ==
    LET sig == IF st.signal = <<>> THEN <<>> ELSE st.signal[1]
        Kept(key) == IF key \in DOMAIN sig THEN <<sig[key]>> ELSE <<>>
        Gate(key, flag, score) ==
            IF key \in DOMAIN sig
            THEN <<[aligned |-> sig[key][flag], alignment_score |-> sig[key][score]]>>
            ELSE <<>>
    IN [status |-> st.status, calls |-> st.calls, id |-> st.id,
        side |-> Kept("side"), score |-> Kept("score"),
        correlation |-> Gate("correlation_insights", "aligned", "alignment_score"),
        flow |-> Gate("flow_analysis", "aligned", "alignment_score"),
        session |-> Gate("session_analysis", "optimal", "optimality_score"),
        risk |-> Kept("adaptive_risk_percent")]

\* for each signal an outcome check evaluated: the hit types on record before
\* the check and those the check added
Checked(open_signals, latest_data, before, after) ==
    IF latest_data = <<>> THEN <<>>
    ELSE
    [k \in DOMAIN open_signals |->
        [signal |-> open_signals[k],
         had |-> {before[i].hit_type : i \in {j \in DOMAIN before :
                            before[j].signal_id = open_signals[k].id}},
         recorded |-> {after[i].hit_type : i \in {j \in DOMAIN after :
                            /\ j > Len(before)
                            /\ after[j].signal_id = open_signals[k].id}}]]

\* the calls of a cycle on the inputs tried, evaluated once
EngAnalysis ==
    [c \in Configs, r \in EngRegimes, d \in EngDatas |-> AnalyzeEliteSetup(Symbol, d, r, c)]
EngCorrelation == [sd \in Sides, b \in EngRates |-> CorrelationResults(sd, b)]
EngFlow == [sd \in Sides, df \in EngFlows |-> GetFlowAnalysis(sd, df)]

\* what a stage reads is drawn only when the configuration runs the stage
NewsInputs(config) == IF config.news_enabled THEN BOOLEAN ELSE {FALSE}
BasketInputs(config, baskets) ==
    IF config.correlation_checks THEN baskets ELSE {EngBasketDown}
HourInputs(config, hours) == IF config.session_aware THEN hours ELSE {0}

EngInit(configs, rows) ==
    /\ cfg \in configs
    /\ bar = 0
    /\ latest = <<>>
    /\ signals \in rows
    /\ outcomes = <<>>
    /\ sent = <<>>
    /\ notifier = "ok"
    /\ delivered = <<>>
    /\ last = <<>>
    /\ checked = <<>>
    /\ cycle = <<>>
    /\ CorrIdle /\ SizIdle /\ ScoreIdle /\ DetIdle
    /\ flowDf = Series(0, <<>>) /\ recent_blocks = <<>> /\ flowOut = <<>>

\* the forming bar closes and the next one opens
NewBar ==
    /\ bar < MaxBar
    /\ bar' = bar + 1
    /\ UNCHANGED <<cfg, latest, signals, outcomes, sent, last, checked, cycle>>
    /\ UNCHANGED <<notifier, delivered>>
    /\ UNCHANGED <<corrVars, flowVars, sizVars, scVars, detVars>>

\* run_cycle for the symbol when _fetch_elite_data returns {}
RunCycleNoDataOn(bars) ==
    \E db_ok \in BOOLEAN, latest_data \in bars :
      \E after \in {CheckEliteOutcomes(Symbol, [signals |-> signals, outcomes |-> outcomes],
                                       latest_data, db_ok, bar)} :
           /\ last' = <<Summary(Progress("NO_DATA", <<>>, <<>>))>>
           /\ latest' = latest_data
           /\ signals' = after.signals
           /\ outcomes' = after.outcomes
           /\ checked' = Checked(GetOpenSignals(Symbol, signals, db_ok), latest_data,
                                 outcomes, after.outcomes)
           /\ UNCHANGED <<notifier, delivered, cfg, bar, sent, cycle>>
           /\ UNCHANGED <<corrVars, flowVars, sizVars, scVars, detVars>>

\* what the gates see of a flow analysis
FlowResult(flow_analysis) ==
    [aligned |-> flow_analysis.aligned,
     alignment_score |-> flow_analysis.alignment_score,
     recent_blocks_count |-> flow_analysis.recent_blocks_count]

\* run_cycle for the symbol when the three series are fetched
RunCycleOn(datas, regimes, baskets, flows, hours, bars) ==
    \E db_ok \in BOOLEAN, regime_info \in regimes, data \in datas,
       in_blackout \in NewsInputs(cfg), basket \in BasketInputs(cfg, baskets),
       df \in flows, hour \in HourInputs(cfg, hours), latest_data \in bars :
      \E st0 \in {EngAnalysis[cfg, regime_info, data]} :
      \E side \in {IF st0.signal = <<>> THEN "BUY" ELSE st0.signal[1].side} :
      \E correlation_insights \in EngCorrelation[side, basket] :
      \E flow_analysis \in {EngFlow[side, df]} :
      \E st \in {HandleEliteSignal(st0, regime_info, cfg, signals, db_ok,
                     in_blackout, correlation_insights, FlowResult(flow_analysis),
                     hour, bar)} :
      \E saved \in {IF st.status = "ACCEPTED"
                    THEN SaveSignal(st.signal[1], signals, db_ok, bar).rows
                    ELSE signals} :
      \* an exception of _process_symbol_elite skips the outcome check
      \E after \in {IF st.status = "RAISED"
                    THEN [signals |-> saved, outcomes |-> outcomes]
                    ELSE CheckEliteOutcomes(Symbol,
                             [signals |-> saved, outcomes |-> outcomes],
                             latest_data, db_ok, bar)} :
           /\ last' = <<Summary(st)>>
           /\ recent_blocks' = IF "flow" \in {st.calls[i] : i \in DOMAIN st.calls}
                               THEN flow_analysis.blocks ELSE recent_blocks
           /\ sent' = IF st.status = "ACCEPTED" THEN Append(sent, st.id) ELSE sent
           /\ delivered' = IF st.status = "ACCEPTED"
                           THEN SendEliteNotification(st.id, notifier, delivered)
                           ELSE delivered
           /\ latest' = IF st.status = "RAISED" THEN latest ELSE latest_data
           /\ signals' = after.signals
           /\ outcomes' = after.outcomes
           /\ checked' = IF st.status = "RAISED" THEN <<>>
                         ELSE Checked(GetOpenSignals(Symbol, saved, db_ok),
                                      latest_data, outcomes, after.outcomes)
           /\ UNCHANGED <<notifier, cfg, bar, cycle>>
           /\ UNCHANGED <<corrVars, flowDf, flowOut, sizVars, scVars, detVars>>

\* the first cycle after the engine is built
PipelineInit == EngInit(Configs, {<<>>, <<StoredBuy(1)>>})
PipelineCycle ==
    /\ last = <<>>
    /\ RunCycleOn(EngDatas, EngRegimes, EngRates, EngFlows, EngHours, QuietBars)
PipelineCycleNoData ==
    /\ last = <<>>
    /\ RunCycleNoDataOn(QuietBars)
PipelineNext == PipelineCycle \/ PipelineCycleNoData

SpecPipeline == PipelineInit /\ [][PipelineNext]_vars

\* cycles over the bars that follow, for a strong candidate or none
OutcomeConfigs ==
    {c \in Configs : ~c.correlation_checks /\ ~c.news_enabled /\ c.session_aware}
OutcomeRows == {<<>>, <<StoredBuy(1)>>, <<StoredSell(1)>>, <<StoredBuy(1), StoredSell(2)>>}
OutcomeInit == EngInit(OutcomeConfigs, OutcomeRows)
OutcomeCycle ==
    RunCycleOn({EngStrongBuy}, {UnknownRegime}, {EngBasketDown}, {EngQuietFlow},
               EngHours, LatestBars)
OutcomeCycleNoData == RunCycleNoDataOn(LatestBars)
OutcomeNext == OutcomeCycle \/ OutcomeCycleNoData \/ NewBar

SpecOutcomes == OutcomeInit /\ [][OutcomeNext]_vars

(***************************************************************************)
(* run_cycle over the configured symbols: the regime is detected once,     *)
(* then each symbol is fetched, analysed, handled and checked for          *)
(* outcomes inside the try of the loop.                                    *)
(***************************************************************************)
\* the keys of tf_map, in the order _fetch_elite_data walks them
TfNames == <<"D1", "H4", "H1">>
\* bars every series of a symbol must have
FetchMinBars == 100

\* what get_rates answers: it raises, returns None, or a frame of `bars` rows
FetchRaises == [kind |-> "raises", bars |-> 0]
FetchNone == [kind |-> "none", bars |-> 0]
FetchFrame(bars) == [kind |-> "df", bars |-> bars]

\* _fetch_elite_data without the test of the length
FetchEliteDataAnyLength(rates, data) ==
    IF \E i \in DOMAIN TfNames : rates[TfNames[i]].kind # "df"
    THEN <<>>
    ELSE <<data>>

\* _fetch_elite_data: <<>> for {}, else the series, held as what the
\* detectors find in them; rates[tf] is get_rates' answer for the timeframe
FetchEliteData(rates, data) ==
    IF \E i \in DOMAIN TfNames :
           \/ rates[TfNames[i]].kind # "df"
           \/ rates[TfNames[i]].bars < FetchMinBars
    THEN <<>>
    ELSE <<data>>

\* the except branch of _detect_market_regime with another regime's parameters
DetectMarketRegimeNoDefault(rates, detected) ==
    IF \A i \in DOMAIN TfNames : rates[TfNames[i]].kind = "df"
    THEN IF detected = <<>> THEN RegimeInfo("HIGH_VOLATILITY") ELSE detected[1]
    ELSE RegimeInfo("HIGH_VOLATILITY")

\* _detect_market_regime: rates are get_rates' answers for the three
\* reference series; detected is detect_regime's result, <<>> when it raises
DetectMarketRegime(rates, detected) ==
    IF \E i \in DOMAIN TfNames : rates[TfNames[i]].kind = "raises"
    THEN UnknownRegime
    ELSE IF \A i \in DOMAIN TfNames : rates[TfNames[i]].kind # "none"
    THEN IF detected = <<>> THEN UnknownRegime ELSE detected[1]
    ELSE UnknownRegime

\* F(v), with the value v computed once
Bound(v, F(_)) == CHOOSE y \in {F(x) : x \in {v}} : TRUE

\* _process_symbol_elite once the candidate st0 is analysed and the flow
\* detector has answered
ProcessSymbolHandle(st0, flow_analysis, in, regime_info, config, rows, hour, now) ==
    HandleEliteSignal(st0, regime_info, config, rows, in.db_ok, in.in_blackout,
                      in.correlation_insights, flow_analysis, hour, now)

\* _process_symbol_elite once the series are fetched
ProcessSymbolData(symbol, data, in, regime_info, config, rows, hour, now) ==
    Bound(AnalyzeEliteSetup(symbol, data, regime_info, config),
          LAMBDA st0 :
            Bound(FlowResult(GetFlowAnalysis(
                      IF st0.signal = <<>> THEN "BUY" ELSE st0.signal[1].side, in.df)),
                  LAMBDA flow_analysis :
                    ProcessSymbolHandle(st0, flow_analysis, in, regime_info, config,
                                        rows, hour, now)))

\* _process_symbol_elite: how the symbol's candidate ends; in is what the
\* calls made for the symbol read
ProcessSymbolElite(symbol, in, regime_info, config, rows, hour, now) ==
    Bound(FetchEliteData(in.rates, in.data),
          LAMBDA data :
            IF data = <<>> THEN Progress("NO_DATA", <<>>, <<>>)
            ELSE ProcessSymbolData(symbol, data[1], in, regime_info, config, rows,
                                   hour, now))

\* the except of the loop of run_cycle left out
ExceptSymbolReraise(r) == r

\* except Exception of the loop of run_cycle: log and continue
ExceptSymbol(r) == [r EXCEPT !.raised = FALSE]

\* the body of the loop of run_cycle for one symbol, from the engine's state
\* acc, once _process_symbol_elite has ended as st: _check_elite_outcomes
\* unless it raised
RunCycleSymbolAfter(symbol, in, st, acc, now) ==
    LET saved == IF st.status = "ACCEPTED"
                 THEN SaveSignal(st.signal[1], acc.signals, in.db_ok, now).rows
                 ELSE acc.signals
        db == [signals |-> saved, outcomes |-> acc.outcomes]
    IN (IF st.status = "RAISED" THEN db
        ELSE CheckEliteOutcomes(symbol, db, in.latest_data, in.db_ok, now))
       @@ [sent |-> IF st.status = "ACCEPTED" THEN Append(acc.sent, st.id) ELSE acc.sent,
           last |-> Append(acc.last, Summary(st)),
           recent_blocks |-> IF \E i \in DOMAIN st.calls : st.calls[i] = "flow"
                             THEN DetectBlockTrades(in.df) ELSE acc.recent_blocks,
           raised |-> st.status = "RAISED"]

\* the body of the loop of run_cycle for one symbol
RunCycleSymbol(symbol, in, regime_info, config, acc, hour, now) ==
    Bound(ProcessSymbolElite(symbol, in, regime_info, config, acc.signals, hour, now),
          LAMBDA st : RunCycleSymbolAfter(symbol, in, st, acc, now))

RECURSIVE RunCycleSymbols(_, _, _, _, _, _, _)
\* the loop of run_cycle; an exception that leaves the body ends it
RunCycleSymbols(symbols, inputs, regime_info, config, acc, hour, now) ==
    IF symbols = <<>> \/ acc.raised THEN acc
    ELSE Bound(ExceptSymbol(RunCycleSymbol(Head(symbols), Head(inputs), regime_info,
                                           config, acc, hour, now)),
               LAMBDA next : RunCycleSymbols(Tail(symbols), Tail(inputs), regime_info,
                                             config, next, hour, now))

\* the symbols, the candidates and the answers of get_rates tried
CycleSymbols == <<"XAUUSD", "EURUSD">>
CycleConfigs ==
    {[c EXCEPT !.symbols = CycleSymbols] :
        c \in {c \in Configs : ~c.correlation_checks /\ ~c.news_enabled}}
CycleFrames == [D1 |-> FetchFrame(FetchMinBars), H4 |-> FetchFrame(FetchMinBars + 30),
                H1 |-> FetchFrame(FetchMinBars)]
CycleRates ==
    {CycleFrames,
     [CycleFrames EXCEPT !.D1 = FetchNone],
     [CycleFrames EXCEPT !.H4 = FetchRaises],
     [CycleFrames EXCEPT !.H1 = FetchFrame(FetchMinBars - 1)]}
CycleInput(rates, data, db_ok, df, latest_data) ==
    [rates |-> rates, data |-> data, db_ok |-> db_ok, in_blackout |-> FALSE,
     correlation_insights |-> GetCorrelationInsights("BUY", [a \in Assets |-> "UNAVAILABLE"]),
     df |-> df, latest_data |-> latest_data]
CycleInputs ==
    {CycleInput(r, EngStrongBuy, TRUE, EngQuietFlow, b) :
        r \in CycleRates, b \in {LatestBar(104, 100, 102), LatestBar(109, 95, 101)}}
    \cup {CycleInput(CycleFrames, d, TRUE, EngQuietFlow, LatestBar(104, 100, 102)) :
            d \in {EngNoBlock, EngWeakBuy, EngStrongSell}}
    \cup {CycleInput(CycleFrames, EngStrongBuy, FALSE, EngQuietFlow, <<>>)}
CycleRegimeRates ==
    {CycleFrames, [CycleFrames EXCEPT !.H4 = FetchNone],
     [CycleFrames EXCEPT !.H1 = FetchRaises]}
CycleDetected == {<<>>, <<RegimeInfo("HIGH_VOLATILITY")>>, <<RegimeInfo("TRENDING_BULLISH")>>}
CycleRows ==
    {<<>>, <<StoredBuy(1)>>,
     <<StoredBuy(1), [StoredSell(2) EXCEPT !.symbol = "EURUSD"]>>}

CycleInit == EngInit(CycleConfigs, CycleRows)

\* one run_cycle, the first after the engine is built
CycleRun ==
    /\ cycle = <<>>
    /\ \E regime_rates \in CycleRegimeRates, detected \in CycleDetected,
          hour \in HourInputs(cfg, EngHours),
          inputs \in [DOMAIN cfg.symbols -> CycleInputs] :
         \E regime_info \in {DetectMarketRegime(regime_rates, detected)} :
         \E acc \in {RunCycleSymbols(cfg.symbols, inputs, regime_info, cfg,
                         [signals |-> signals, outcomes |-> outcomes, sent |-> sent,
                          last |-> <<>>, recent_blocks |-> recent_blocks,
                          raised |-> FALSE],
                         hour, bar)} :
            /\ cycle' = <<[raised |-> acc.raised,
                           regime_rates |-> regime_rates,
                           detected |-> detected # <<>>,
                           regime_info |-> regime_info,
                           rates |-> [i \in DOMAIN inputs |-> inputs[i].rates]]>>
            /\ last' = acc.last
            /\ signals' = acc.signals
            /\ outcomes' = acc.outcomes
            /\ sent' = acc.sent
            /\ delivered' = SendEliteNotifications(SubSeq(acc.sent, Len(sent) + 1, Len(acc.sent)),
                                                    notifier, delivered)
            /\ recent_blocks' = acc.recent_blocks
            /\ UNCHANGED <<notifier, cfg, bar, latest, checked>>
            /\ UNCHANGED <<corrVars, flowDf, flowOut, sizVars, scVars, detVars>>

\* the poll interval passes
CycleNextPoll ==
    /\ cycle # <<>>
    /\ cycle' = <<>>
    /\ last' = <<>>
    /\ UNCHANGED <<notifier, delivered, cfg, bar, latest, signals, outcomes, sent, checked>>
    /\ UNCHANGED <<corrVars, flowVars, sizVars, scVars, detVars>>

CycleNext == CycleRun \/ CycleNextPoll

SpecCycle == CycleInit /\ [][CycleNext]_vars

(***************************************************************************)
(* The store under repeated use: _handle_elite_signal and save_signal are  *)
(* called with signal dicts, some of them complete (with the 'checklist'   *)
(* key save_signal reads), for a few dedup identities.                     *)
(***************************************************************************)
\* the signal _analyze_elite_setup builds for the symbol from the data
StoreBuilt(symbol, data) ==
    AnalyzeEliteSetup(symbol, data, UnknownRegime, CHOOSE c \in Configs : TRUE).signal[1]
\* the same dict with the key save_signal needs
StoreComplete(signal) == [checklist |-> <<>>] @@ signal
StoreSignals ==
    LET built == {StoreBuilt("XAUUSD", EngStrongBuy), StoreBuilt("XAUUSD", EngStrongSell),
                  StoreBuilt("EURUSD", EngStrongBuy)}
    IN built \cup {StoreComplete(b) : b \in built}
StoreConfigs ==
    {c \in Configs : ~c.correlation_checks /\ ~c.news_enabled /\ ~c.session_aware}

StoreInit == EngInit(StoreConfigs, {<<>>})

\* what a call found and left: the identity was in the table before it
StoreCall(op, signal, id) ==
    [op |-> op, returned |-> id,
     existed |-> \E i \in DOMAIN signals : signals[i].signal_hash = GetSignalKey(signal),
     rows_before |-> Len(signals), sent_before |-> Len(sent)]

\* _handle_elite_signal(signal, regime_info)
StoreHandle ==
    \E signal \in StoreSignals, db_ok \in BOOLEAN :
      \E flow_analysis \in {EngFlow[signal.side, EngQuietFlow]} :
      \E st \in {HandleEliteSignal(Progress("RUNNING", <<"score_threshold">>, <<signal>>),
                     UnknownRegime, cfg, signals, db_ok, FALSE,
                     GetCorrelationInsights(signal.side, [a \in Assets |-> "UNAVAILABLE"]),
                     FlowResult(flow_analysis), 0, bar)} :
         /\ last' = <<Summary(st)>>
         /\ signals' = IF st.status = "ACCEPTED"
                       THEN SaveSignal(st.signal[1], signals, db_ok, bar).rows
                       ELSE signals
         /\ sent' = IF st.status = "ACCEPTED" THEN Append(sent, st.id) ELSE sent
         /\ delivered' = IF st.status = "ACCEPTED"
                         THEN SendEliteNotification(st.id, notifier, delivered)
                         ELSE delivered
         /\ recent_blocks' = IF \E i \in DOMAIN st.calls : st.calls[i] = "flow"
                             THEN flow_analysis.blocks ELSE recent_blocks
         /\ cycle' = <<StoreCall("handle", signal, st.id)>>
         /\ UNCHANGED <<notifier, cfg, bar, latest, outcomes, checked>>
         /\ UNCHANGED <<corrVars, flowDf, flowOut, sizVars, scVars, detVars>>

\* save_signal(signal)
StoreSave ==
    \E signal \in StoreSignals, db_ok \in BOOLEAN :
      \E saved \in {SaveSignal(signal, signals, db_ok, bar)} :
         /\ signals' = saved.rows
         /\ cycle' = <<StoreCall("save", signal, saved.id)>>
         /\ last' = <<>>
         /\ UNCHANGED <<notifier, delivered, cfg, bar, latest, outcomes, sent, checked>>
         /\ UNCHANGED <<corrVars, flowVars, sizVars, scVars, detVars>>

StoreNext == StoreHandle \/ StoreSave

SpecStore == StoreInit /\ [][StoreNext]_vars

(***************************************************************************)
(* Candidates handled cycle after cycle while the chart generator and      *)
(* Telegram fail and recover.  The main loop calls run_cycle again after   *)
(* every poll interval, for ever: the handling is weakly fair.             *)
(***************************************************************************)
NotifyInit == StoreInit

\* the chart generator or Telegram stops working
NotifierBreaks ==
    /\ notifier = "ok"
    /\ notifier' \in NotifierStates \ {"ok"}
    /\ UNCHANGED <<cfg, bar, latest, signals, outcomes, sent, delivered, last,
                   checked, cycle>>
    /\ UNCHANGED <<corrVars, flowVars, sizVars, scVars, detVars>>

\* both work again
NotifierRecovers ==
    /\ notifier # "ok"
    /\ notifier' = "ok"
    /\ UNCHANGED <<cfg, bar, latest, signals, outcomes, sent, delivered, last,
                   checked, cycle>>
    /\ UNCHANGED <<corrVars, flowVars, sizVars, scVars, detVars>>

NotifyNext == StoreHandle \/ NotifierBreaks \/ NotifierRecovers

SpecNotify == NotifyInit /\ [][NotifyNext]_vars /\ WF_vars(StoreHandle)

(***************************************************************************)
(* Order blocks: find_elite_order_blocks, get_best_order_block and the     *)
(* signal built from the block chosen.                                     *)
(*                                                                         *)
(* A candle is [o, h, l, c, v], prices in hundredths.  A series is held as *)
(* [pre, fill, free, post]: `pre` candles equal to `fill`, the candles of  *)
(* `free`, then `post` candles equal to `fill`; indexes count from 0.     *)
(* Volumes are positive.                                                   *)
(***************************************************************************)
Candle(o, h, l, c, v) == [o |-> o, h |-> h, l |-> l, c |-> c, v |-> v]
Candles(pre, fill, free, post) == [pre |-> pre, fill |-> fill, free |-> free, post |-> post]
\* len(df)
CLen(df) == df.pre + Len(df.free) + df.post
\* df.iloc[idx]
CBar(df, idx) ==
    IF idx >= df.pre /\ idx < df.pre + Len(df.free) THEN df.free[idx - df.pre + 1]
    ELSE df.fill
FracDiv(a, b) == FracMul(a, Frac(b.den, b.num))
Max3(a, b, c) == IF a >= b /\ a >= c THEN a ELSE IF b >= c THEN b ELSE c

\* atr: the true range of bar idx (the first bar has no previous close)
TrueRange(df, idx) ==
    LET b == CBar(df, idx)
    IN IF idx = 0 THEN b.h - b.l
       ELSE LET pc == CBar(df, idx - 1).c
            IN Max3(b.h - b.l, Abs(b.h - pc), Abs(b.l - pc))
\* the bars from..to and the bar before them are all fill candles
AllFill(df, from, to) ==
    /\ from >= 1
    /\ to < df.pre \/ from - 1 >= df.pre + Len(df.free)
RECURSIVE SumOver(_, _, _, _)
\* sum of F over the bars from..to of the series (equal terms are multiplied)
SumOver(F(_, _), df, from, to) ==
    IF from > to THEN 0
    ELSE IF AllFill(df, from, to) THEN (to - from + 1) * F(df, from)
    ELSE F(df, from) + SumOver(F, df, from + 1, to)
AtrPeriod == 14
\* atr(df).iloc[idx], for idx >= period - 1 (NaN before)
Atr(df, idx) == FracNorm(Frac(SumOver(TrueRange, df, idx - AtrPeriod + 1, idx), AtrPeriod))
VolumeOf(df, idx) == CBar(df, idx).v
VolumePeriod == 20
\* df['v'].rolling(20).mean().iloc[idx]: <<>> for NaN
VolumeMean(df, idx) ==
    IF idx < VolumePeriod - 1 THEN <<>>
    ELSE <<FracNorm(Frac(SumOver(VolumeOf, df, idx - VolumePeriod + 1, idx), VolumePeriod))>>

\* config.get('min_displacement', 2.0)
MinDisplacement == 2
\* _calculate_displacement, for idx >= 19
CalculateDisplacement(df, idx) ==
    LET atr_val == Atr(df, idx)
        b == CBar(df, idx)
    IN IF atr_val.num <= 0 THEN Frac(0, 1)
       ELSE LET body == Frac(Abs(b.c - b.o), 1)
                rng == Frac(b.h - b.l, 1)
                volume_ratio == FracDiv(Frac(b.v, 1), VolumeMean(df, idx)[1])
                base_displacement ==
                    FracMul(FracMul(FracDiv(body, atr_val), FracDiv(rng, atr_val)),
                            Frac(1, 2))
                volume_boost ==
                    FracMin(Frac(1, 2),
                            FracMul(FracSub(volume_ratio, Frac(1, 1)), Frac(1, 4)))
            IN FracAdd(base_displacement, volume_boost)

\* _calculate_candle_quality
CalculateCandleQuality(df, idx) ==
    LET b == CBar(df, idx)
        body_size == Abs(b.c - b.o)
        range_size == b.h - b.l
        body_ratio == IF range_size > 0 THEN Frac(body_size, range_size) ELSE Frac(0, 1)
        avg_volume == VolumeMean(df, idx)
        volume_ratio == IF avg_volume # <<>> /\ avg_volume[1].num > 0
                        THEN FracDiv(Frac(b.v, 1), avg_volume[1]) ELSE Frac(1, 1)
        quality == FracAdd(FracAdd(FracMul(body_ratio, Frac(4, 10)),
                                   FracMul(FracMin(Frac(2, 1), volume_ratio), Frac(3, 10))),
                           Frac(15, 100))
    IN FracMin(Frac(1, 1), quality)

RECURSIVE FracLess(_, _)
\* a < b without cross-multiplying: whole parts first, then the remainders
FracLess(a, b) ==
    LET qa == a.num \div a.den
        qb == b.num \div b.den
        ra == a.num % a.den
        rb == b.num % b.den
    IN IF qa # qb THEN qa < qb
       ELSE IF rb = 0 THEN FALSE
       ELSE IF ra = 0 THEN TRUE
       ELSE FracLess(Frac(b.den, rb), Frac(a.den, ra))

\* how far back the opposite candle is looked for
OppositeLookback == 15
RECURSIVE OppositeFrom(_, _, _, _, _)
\* the loop of _find_elite_opposite_candle from index i down to stop + 1
OppositeFrom(df, i, stop, find_bearish, best) ==
    IF i <= stop THEN best
    ELSE LET b == CBar(df, i)
             is_opposite == (find_bearish /\ b.c < b.o) \/ (~find_bearish /\ b.c > b.o)
             quality == CalculateCandleQuality(df, i)
         IN OppositeFrom(df, i - 1, stop, find_bearish,
                IF is_opposite /\ FracLess(best.quality, quality)
                THEN [idx |-> <<i>>, quality |-> quality] ELSE best)
\* _find_elite_opposite_candle taking the first opposite candle it meets
FindEliteOppositeCandleNearest(df, start_idx, find_bearish) ==
    LET lo == IF start_idx - OppositeLookback > 0 THEN start_idx - OppositeLookback ELSE 0
        opp == {i \in (lo + 1)..(start_idx - 1) :
                   \/ find_bearish /\ CBar(df, i).c < CBar(df, i).o
                   \/ ~find_bearish /\ CBar(df, i).c > CBar(df, i).o}
    IN IF opp = {} THEN [idx |-> <<>>, quality |-> Frac(0, 1)]
       ELSE LET i == CHOOSE m \in opp : \A k \in opp : k <= m
            IN [idx |-> <<i>>, quality |-> CalculateCandleQuality(df, i)]
\* _find_elite_opposite_candle: (best_idx, best_quality), best_idx <<>> for None
FindEliteOppositeCandle(df, start_idx, find_bearish) ==
    OppositeFrom(df, start_idx - 1,
                 IF start_idx - OppositeLookback > 0 THEN start_idx - OppositeLookback ELSE 0,
                 find_bearish, [idx |-> <<>>, quality |-> Frac(0, 1)])

\* _create_elite_order_block
CreateEliteOrderBlock(df, idx, bullish, tf, displacement, quality) ==
    LET b == CBar(df, idx)
    IN [idx |-> idx, bullish |-> bullish,
        body_low |-> IF b.o < b.c THEN b.o ELSE b.c,
        body_high |-> IF b.o > b.c THEN b.o ELSE b.c,
        wick_low |-> b.l, wick_high |-> b.h, tf |-> tf,
        displacement |-> displacement, volume |-> b.v, quality |-> quality]

\* find_elite_order_blocks: first index scanned, and the bars left out at the end
ObFirstIdx == 20
ObTailBars == 10
\* the body of the loop of find_elite_order_blocks at index i: <<>> or <<block>>
OrderBlockAt(df, tf, i) ==
    LET displacement == CalculateDisplacement(df, i)
        b == CBar(df, i)
        found == FindEliteOppositeCandle(df, i, b.c > b.o)
    IN IF FracLt(displacement, Frac(MinDisplacement, 1)) THEN <<>>
       ELSE IF found.idx = <<>> THEN <<>>
       ELSE <<CreateEliteOrderBlock(df, found.idx[1], ~(b.c > b.o), tf,
                                    displacement, found.quality)>>
RECURSIVE OrderBlocksAt(_, _, _)
\* the blocks of the loop steps `hits`, in index order
OrderBlocksAt(df, tf, hits) ==
    IF hits = {} THEN <<>>
    ELSE LET i == CHOOSE m \in hits : \A k \in hits : m <= k
         IN OrderBlockAt(df, tf, i) \o OrderBlocksAt(df, tf, hits \ {i})
\* the loop of find_elite_order_blocks from index i on
OrderBlocksFrom(df, tf, i) ==
    OrderBlocksAt(df, tf, {j \in i..(CLen(df) - ObTailBars - 1) :
                              OrderBlockAt(df, tf, j) # <<>>})
\* the sort key (quality, displacement) of a is below that of b
BlockKeyLt(a, b) ==
    \/ FracLess(a.quality, b.quality)
    \/ a.quality = b.quality /\ FracLess(a.displacement, b.displacement)
RECURSIVE SortedByQuality(_)
\* sorted(blocks, key=(quality, displacement), reverse=True), stable
SortedByQuality(blocks) ==
    IF blocks = <<>> THEN <<>>
    ELSE LET rest == SortedByQuality(Tail(blocks))
             x == Head(blocks)
             before == SelectSeq(rest, LAMBDA y : BlockKeyLt(x, y))
             after == SelectSeq(rest, LAMBDA y : ~BlockKeyLt(x, y))
         IN before \o <<x>> \o after

\* find_elite_order_blocks with a block made of every bar scanned
FindEliteOrderBlocksEveryBar(df, tf) ==
    [i \in 1..(IF CLen(df) - ObTailBars > ObFirstIdx
               THEN CLen(df) - ObTailBars - ObFirstIdx ELSE 0) |->
        CreateEliteOrderBlock(df, ObFirstIdx + i - 1, TRUE, tf, Frac(0, 1), Frac(0, 1))]

\* find_elite_order_blocks
FindEliteOrderBlocks(df, tf) == SortedByQuality(OrderBlocksFrom(df, tf, ObFirstIdx))

\* get_best_order_block: the score of a block
BlockScore(block) ==
    FracAdd(FracAdd(FracMul(block.quality, Frac(4, 10)),
                    FracMul(FracMin(Frac(1, 1), FracDiv(block.displacement, Frac(5, 1))),
                            Frac(3, 10))),
            FracMul(IF block.tf = "H4" THEN Frac(1, 1) ELSE Frac(1, 2), Frac(3, 10)))
\* get_best_order_block: <<>> for None, else the first block of highest score
GetBestOrderBlock(h4_blocks, h1_blocks) ==
    LET all_blocks == h4_blocks \o h1_blocks
    IN IF all_blocks = <<>> THEN <<>>
       ELSE <<all_blocks[CHOOSE i \in DOMAIN all_blocks :
                  /\ \A j \in DOMAIN all_blocks :
                         ~FracLess(BlockScore(all_blocks[i]), BlockScore(all_blocks[j]))
                  /\ \A j \in 1..(i - 1) :
                         FracLess(BlockScore(all_blocks[j]), BlockScore(all_blocks[i]))]>>

\* _analyze_elite_setup on the candles, the scorer's result being elite_score
AnalyzeEliteSetupScored(symbol, best_ob, h1, elite_score, regime_info, config) ==
    IF best_ob = <<>> THEN Progress("NO_SETUP", <<>>, <<>>)
    ELSE IF elite_score < AdaptiveThreshold(regime_info, config)
    THEN Progress("BELOW_THRESHOLD", <<"score_threshold">>, <<>>)
    ELSE Progress("RUNNING", <<"score_threshold">>,
                  <<BuildEliteSignal(symbol, best_ob[1], elite_score, <<>>,
                                     [atr_val |-> Atr(h1, CLen(h1) - 1)],
                                     regime_info, config)>>)

(***************************************************************************)
(* Specification of the analysis on candles: the H4 and H1 series are      *)
(* fixed at Init and _analyze_elite_setup is applied to them.              *)
(***************************************************************************)
FlatCandle == Candle(100, 100, 100, 100, 1)
DojiCandle == Candle(100, 101, 99, 100, 1)
BearNarrow == Candle(101, 102, 99, 100, 1)
BearWide == Candle(104, 106, 98, 100, 1)
BullNarrow == Candle(100, 102, 99, 101, 1)
BullWide == Candle(100, 106, 98, 104, 2)
BullImpulse == Candle(100, 111, 99, 110, 3)
BearImpulse == Candle(110, 111, 99, 100, 3)
DetCandles == {BearNarrow, BearWide, BullNarrow, BullWide, BullImpulse, BearImpulse}
\* flat series of several lengths
DetFlatLens == {0, 13, 30, 31, 100, 120}
DetFlats == {Candles(n, FlatCandle, <<>>, 0) : n \in DetFlatLens}
\* series long enough to be fetched: three free candles, then the bars
\* find_elite_order_blocks leaves out at the end
DetPres == {FetchMinBars - 13, FetchMinBars - 11}
DetH1s ==
    {Candles(pre, fill, <<a, b, c>>, post) :
        pre \in DetPres, fill \in {FlatCandle, DojiCandle},
        a \in DetCandles, b \in DetCandles, c \in DetCandles,
        post \in {ObTailBars, AtrPeriod}}
DetH4Flat == Candles(FetchMinBars, FlatCandle, <<>>, 0)
DetH4s ==
    {DetH4Flat,
     Candles(FetchMinBars - 13, DojiCandle, <<BearWide, BullNarrow, BearImpulse>>, ObTailBars),
     Candles(FetchMinBars - 13, DojiCandle, <<BearNarrow, BullWide, BullImpulse>>, ObTailBars)}
\* a bearish candle 14 and 15 bars behind a bullish impulse
DetH1Far ==
    {Candles(FetchMinBars - 10 - d, DojiCandle,
             <<BearWide>> \o [k \in 1..(d - 1) |-> DojiCandle] \o <<BullImpulse>>,
             ObTailBars) : d \in {OppositeLookback - 1, OppositeLookback}}
DetScores == {6, 8}
DetInput(h4, h1, regime_info, elite_score) ==
    [h4 |-> h4, h1 |-> h1, regime_info |-> regime_info, elite_score |-> elite_score]
\* H1 series met under every regime and score
DetH1Regimes ==
    {Candles(FetchMinBars - 13, fill, <<a, b, c>>, ObTailBars) :
        fill \in {FlatCandle, DojiCandle}, a \in {BearNarrow, BullWide},
        b \in {BearWide, BullNarrow}, c \in {BullImpulse, BearImpulse}}
    \cup {Candles(FetchMinBars, FlatCandle, <<>>, 0)}
DetInputs ==
    {DetInput(DetH4Flat, h1, UnknownRegime, 8) : h1 \in DetH1s \cup DetH1Far}
    \cup {DetInput(h4, h1, r, sc) :
              h4 \in DetH4s, h1 \in DetH1Regimes, r \in RegimeInfos, sc \in DetScores}
    \cup {DetInput(f, g, UnknownRegime, 8) : f \in DetFlats, g \in DetFlats}
DetConfig == CHOOSE c \in Configs : TRUE

DetInit ==
    /\ \E in \in DetInputs : detIn = <<in>>
    /\ detOut = <<>>
    /\ CorrIdle /\ FlowIdle /\ SizIdle /\ ScoreIdle /\ EngIdle

\* _analyze_elite_setup(symbol, data, regime_info)
DetAnalyze ==
    /\ detOut = <<>>
    /\ \E in \in {detIn[1]} :
       \E h4_blocks \in {FindEliteOrderBlocks(in.h4, "H4")} :
       \E h1_blocks \in {FindEliteOrderBlocks(in.h1, "H1")} :
       \E best_ob \in {GetBestOrderBlock(h4_blocks, h1_blocks)} :
          detOut' = <<[h4_blocks |-> h4_blocks, h1_blocks |-> h1_blocks,
                       best_ob |-> best_ob,
                       st |-> AnalyzeEliteSetupScored(Symbol, best_ob, in.h1,
                                  in.elite_score, in.regime_info, DetConfig)]>>
    /\ UNCHANGED detIn
    /\ UNCHANGED <<corrVars, flowVars, sizVars, scVars, engVars>>

DetNext == DetAnalyze

SpecDet == DetInit /\ [][DetNext]_vars

(***************************************************************************)
(* FU candles: detect_elite_fu_candle on the last bar of a series, and the *)
(* same series with more volume on that bar.                               *)
(***************************************************************************)
\* config.get('fu_body_atr', 0.8) and config.get('fu_close_frac', 0.6), in tenths
FuBodyAtr10 == 8
FuCloseFrac10 == 6
\* len(df) below which no FU candle is looked for
FuMinBars == 10
\* the rolling ATR at idx: <<>> for NaN
AtrAt(df, idx) == IF idx < AtrPeriod - 1 THEN <<>> ELSE <<Atr(df, idx)>>
\* the highest high / lowest low of df.iloc[-10:-1]
PriorHighMax(df) ==
    LET n == CLen(df)
    IN CHOOSE m \in {CBar(df, i).h : i \in (n - FuMinBars)..(n - 2)} :
           \A i \in (n - FuMinBars)..(n - 2) : CBar(df, i).h <= m
PriorLowMin(df) ==
    LET n == CLen(df)
    IN CHOOSE m \in {CBar(df, i).l : i \in (n - FuMinBars)..(n - 2)} :
           \A i \in (n - FuMinBars)..(n - 2) : CBar(df, i).l >= m

\* volume_ratio with the quotient upside down
FuVolumeRatioInverted(df) ==
    LET avg_volume == VolumeMean(df, CLen(df) - 1)
        v == CBar(df, CLen(df) - 1).v
    IN IF avg_volume # <<>> /\ avg_volume[1].num > 0 /\ v > 0
       THEN FracDiv(avg_volume[1], Frac(v, 1)) ELSE Frac(1, 1)

\* detect_elite_fu_candle: volume_ratio of the last bar
FuVolumeRatio(df) ==
    LET avg_volume == VolumeMean(df, CLen(df) - 1)
    IN IF avg_volume # <<>> /\ avg_volume[1].num > 0
       THEN FracDiv(Frac(CBar(df, CLen(df) - 1).v, 1), avg_volume[1]) ELSE Frac(1, 1)

\* _calculate_fu_strength (min(0.4, x) keeps 0.4 when x is NaN)
CalculateFuStrength(df, direction, body_size, atr_val, volume_ratio) ==
    LET body_strength ==
            IF atr_val = <<>> THEN Frac(4, 10)
            ELSE FracMin(Frac(4, 10),
                         FracMul(FracDiv(Frac(body_size, 1), atr_val[1]), Frac(4, 10)))
        volume_strength ==
            FracMin(Frac(3, 10), FracMul(FracMin(Frac(3, 1), volume_ratio), Frac(1, 10)))
        current == CBar(df, CLen(df) - 1)
        range_size == current.h - current.l
        rejection == IF direction = "bullish"
                     THEN Frac(current.c - current.l, range_size)
                     ELSE Frac(current.h - current.c, range_size)
        rejection_strength == FracMin(Frac(3, 10), FracMul(rejection, Frac(3, 10)))
    IN FracAdd(FracAdd(body_strength, volume_strength), rejection_strength)

\* detect_elite_fu_candle: <<>> for None, else <<FUCandle>>
DetectEliteFuCandle(df) ==
    IF CLen(df) < FuMinBars THEN <<>>
    ELSE
    LET current == CBar(df, CLen(df) - 1)
        atr_val == AtrAt(df, CLen(df) - 1)
        body_size == Abs(current.c - current.o)
        range_size == current.h - current.l
        volume_ratio == FuVolumeRatio(df)
        swept_high == current.h > PriorHighMax(df)
        swept_low == current.l < PriorLowMin(df)
        close_frac == IF range_size > 0 THEN Frac(current.c - current.l, range_size)
                      ELSE Frac(1, 2)
        Fu(direction) ==
            <<[idx |-> CLen(df) - 1, direction |-> direction, body_size |-> body_size,
               range_size |-> range_size, close_frac |-> close_frac,
               volume_ratio |-> volume_ratio,
               strength |-> CalculateFuStrength(df, direction, body_size, atr_val,
                                                volume_ratio)]>>
    IN IF atr_val # <<>> /\ FracLt(Frac(body_size, 1), FracMul(Frac(FuBodyAtr10, 10), atr_val[1]))
       THEN <<>>
       ELSE IF swept_low /\ FracGe(close_frac, Frac(FuCloseFrac10, 10)) THEN Fu("bullish")
       ELSE IF swept_high /\ ~FracLt(Frac(10 - FuCloseFrac10, 10), close_frac)
       THEN Fu("bearish")
       ELSE <<>>

\* the series with volume v on its last bar
WithLastVolume(df, v) ==
    [df EXCEPT !.free[Len(df.free)] = [@ EXCEPT !.v = v]]

FuCandles ==
    {Candle(100, 104, 97, 103, 1),    \* sweeps both ends, closes high
     Candle(103, 104, 97, 98, 1),     \* sweeps both ends, closes low
     Candle(100, 101, 98, 100, 1),    \* sweeps the lows with no body
     Candle(100, 103, 100, 102, 1),   \* sweeps the highs, closes high
     DojiCandle}
FuFills == {DojiCandle, FlatCandle, [DojiCandle EXCEPT !.v = 0]}
\* bars before the two free candles: NaN ATR, NaN mean volume, both defined
FuPres == {FuMinBars - 3, FuMinBars - 2, AtrPeriod - 2, VolumePeriod - 2, FetchMinBars - 2}
FuVolumes == {0, 1, 2, 5, 60}
FuSeries ==
    {Candles(pre, fill, <<a, [cur EXCEPT !.v = v]>>, 0) :
        pre \in FuPres, fill \in FuFills, a \in {DojiCandle, BullWide},
        cur \in FuCandles, v \in FuVolumes}

FuInit ==
    /\ \E df \in FuSeries, more \in FuVolumes :
          /\ more > CBar(df, CLen(df) - 1).v
          /\ detIn = <<[h1 |-> df, more |-> more]>>
    /\ detOut = <<>>
    /\ CorrIdle /\ FlowIdle /\ SizIdle /\ ScoreIdle /\ EngIdle

\* detect_elite_fu_candle on the series and on the series with more volume
FuDetect ==
    /\ detOut = <<>>
    /\ detOut' = <<[first |-> DetectEliteFuCandle(detIn[1].h1),
                    second |-> DetectEliteFuCandle(
                                   WithLastVolume(detIn[1].h1, detIn[1].more))]>>
    /\ UNCHANGED detIn
    /\ UNCHANGED <<corrVars, flowVars, sizVars, scVars, engVars>>

FuNext == FuDetect

SpecFu == FuInit /\ [][FuNext]_vars

(***************************************************************************)
(* MarketRegimeDetector.detect_regime.  A series is held as what the       *)
(* detector reads from it:                                                 *)
(*   h1: current_atr and avg_atr (ATR(14) at the last bar and its mean     *)
(*       over the last 50 bars, in hundredths; 0 stands for NaN as well,   *)
(*       both fail avg_atr > 0), and rsi, the RSI(14) at the last bar      *)
(*   d1, h4: n bars; h, l of the last bar; the extremes of the highs and   *)
(*       lows of the 19 bars before it; c and c10, the close of the last   *)
(*       bar and of the bar at iloc[-10]; the signs of the two EMA slopes; *)
(*       uptrend, whether EMA21 is above EMA50 at the last bar             *)
(***************************************************************************)
\* _detect_volatility_regime
DetectVolatilityRegime(df) ==
    LET volatility_ratio == IF df.avg_atr > 0 THEN Frac(df.current_atr, df.avg_atr)
                            ELSE Frac(1, 1)
        Regime(type, confidence10) ==
            [type |-> type, ratio |-> volatility_ratio, confidence |-> Frac(confidence10, 10)]
    IN IF FracGe(volatility_ratio, Frac(18, 10)) THEN Regime("HIGH_VOLATILITY", 9)
       ELSE IF FracGe(volatility_ratio, Frac(13, 10)) THEN Regime("ELEVATED_VOLATILITY", 7)
       ELSE IF ~FracLt(Frac(7, 10), volatility_ratio) THEN Regime("LOW_VOLATILITY", 8)
       ELSE IF ~FracLt(Frac(5, 10), volatility_ratio) THEN Regime("EXTREME_LOW_VOLATILITY", 9)
       ELSE Regime("NORMAL_VOLATILITY", 6)

\* bars below which _calculate_trend_strength answers 0.5
TrendStrengthMinBars == 50
\* _calculate_trend_strength: the window of the last 20 highs and lows
\* holds the last bar itself
CalculateTrendStrength(df) ==
    IF df.n < TrendStrengthMinBars THEN Frac(1, 2)
    ELSE
    LET higher_highs == df.h > Max(df.h, df.hi_max19)
        higher_lows == df.l > Max(df.l, df.lo_max19)
        lower_highs == df.h < Min(df.h, df.hi_min19)
        lower_lows == df.l < Min(df.l, df.lo_min19)
        structure == IF (higher_highs /\ higher_lows) \/ (lower_highs /\ lower_lows)
                     THEN Frac(4, 10) ELSE Frac(0, 1)
        alignment == IF (df.ema20_slope > 0 /\ df.ema50_slope > 0)
                        \/ (df.ema20_slope < 0 /\ df.ema50_slope < 0)
                     THEN Frac(3, 10) ELSE Frac(0, 1)
        price_change == Frac(Abs(df.c - df.c10), df.c10)
        momentum == FracMin(Frac(3, 10), FracMul(price_change, Frac(10, 1)))
    IN FracMin(Frac(1, 1), FracAdd(FracAdd(structure, alignment), momentum))

\* _detect_trend_regime
DetectTrendRegime(d1, h4) ==
    LET combined_strength ==
            FracAdd(FracMul(CalculateTrendStrength(d1), Frac(6, 10)),
                    FracMul(CalculateTrendStrength(h4), Frac(4, 10)))
        Regime(type, confidence10) ==
            [type |-> type, direction |-> IF d1.uptrend THEN "BULLISH" ELSE "BEARISH",
             strength |-> combined_strength, confidence |-> Frac(confidence10, 10)]
    IN IF FracGe(combined_strength, Frac(7, 10)) THEN Regime("STRONG_TREND", 8)
       ELSE IF FracGe(combined_strength, Frac(5, 10)) THEN Regime("MODERATE_TREND", 6)
       ELSE IF FracGe(combined_strength, Frac(3, 10)) THEN Regime("WEAK_TREND", 4)
       ELSE Regime("RANGING", 7)

\* _detect_momentum_regime
DetectMomentumRegime(df) ==
    LET Regime(type, confidence10) ==
            [type |-> type, rsi |-> df.rsi, confidence |-> Frac(confidence10, 10)]
    IN IF df.rsi >= 70 THEN Regime("OVERBOUGHT", 8)
       ELSE IF df.rsi >= 60 THEN Regime("BULLISH_MOMENTUM", 6)
       ELSE IF df.rsi <= 30 THEN Regime("OVERSOLD", 8)
       ELSE IF df.rsi <= 40 THEN Regime("BEARISH_MOMENTUM", 6)
       ELSE Regime("NEUTRAL_MOMENTUM", 5)

\* _combine_regimes
CombineRegimes(volatility, trend, momentum) ==
    [type |-> IF volatility.type \in {"HIGH_VOLATILITY", "EXTREME_LOW_VOLATILITY"}
              THEN volatility.type
              ELSE IF trend.type = "STRONG_TREND"
              THEN (IF trend.direction = "BULLISH" THEN "TRENDING_BULLISH"
                    ELSE "TRENDING_BEARISH")
              ELSE IF trend.type = "RANGING" THEN "RANGING_MARKET"
              ELSE "MIXED_REGIME",
     confidence |-> FracAdd(FracAdd(FracMul(volatility.confidence, Frac(4, 10)),
                                    FracMul(trend.confidence, Frac(4, 10))),
                            FracMul(momentum.confidence, Frac(2, 10)))]

\* detect_regime
DetectRegime(d1, h4, h1) ==
    LET volatility_regime == DetectVolatilityRegime(h1)
        trend_regime == DetectTrendRegime(d1, h4)
        momentum_regime == DetectMomentumRegime(h1)
        final_regime == CombineRegimes(volatility_regime, trend_regime, momentum_regime)
    IN [type |-> final_regime.type, confidence |-> final_regime.confidence,
        adaptive_params |-> GetAdaptiveParameters(final_regime.type),
        volatility_subtype |-> volatility_regime, trend_subtype |-> trend_regime,
        momentum_subtype |-> momentum_regime]

(***************************************************************************)
(* Specification of the regime detector: the three series are fixed at     *)
(* Init and detect_regime is applied to them.                              *)
(***************************************************************************)
RegimeH1(current_atr, avg_atr, rsi) ==
    [current_atr |-> current_atr, avg_atr |-> avg_atr, rsi |-> rsi]
\* ATR pairs around every threshold of the ratio, and an undefined mean
RegimeH1s ==
    {RegimeH1(a, 10, 50) : a \in {0, 4, 5, 6, 7, 8, 12, 13, 17, 18, 25}}
    \cup {RegimeH1(8, 10, r) : r \in {25, 35, 65, 75}}
    \cup {RegimeH1(5, 0, 50)}
RegimeTrend(n, tail, c10, s20, s50, up) ==
    [n |-> n, h |-> tail.h, l |-> tail.l, c |-> tail.c,
     hi_max19 |-> tail.hi_max19, hi_min19 |-> tail.hi_min19,
     lo_max19 |-> tail.lo_max19, lo_min19 |-> tail.lo_min19,
     c10 |-> c10, ema20_slope |-> s20, ema50_slope |-> s50, uptrend |-> up]
\* the last bar against the 19 bars before it
RegimeTails ==
    {[h |-> 112, l |-> 108, c |-> 110, hi_max19 |-> 107, hi_min19 |-> 101,
      lo_max19 |-> 105, lo_min19 |-> 99],      \* higher high and higher low
     [h |-> 92, l |-> 88, c |-> 90, hi_max19 |-> 107, hi_min19 |-> 95,
      lo_max19 |-> 105, lo_min19 |-> 91],      \* lower high and lower low
     [h |-> 104, l |-> 100, c |-> 102, hi_max19 |-> 107, hi_min19 |-> 101,
      lo_max19 |-> 105, lo_min19 |-> 99]}      \* inside the window
RegimeTrends ==
    {RegimeTrend(n, t, c10, s, s, up) :
        n \in {TrendStrengthMinBars - 1, FetchMinBars}, t \in RegimeTails,
        c10 \in {100, 102}, s \in {-1, 0, 1}, up \in BOOLEAN}

RegimeInit ==
    /\ \E d1 \in RegimeTrends, h4 \in RegimeTrends, h1 \in RegimeH1s :
          /\ h4.uptrend /\ h4.c10 = 100 /\ h4.ema20_slope # 0
          /\ detIn = <<[d1 |-> d1, h4 |-> h4, h1 |-> h1]>>
    /\ detOut = <<>>
    /\ CorrIdle /\ FlowIdle /\ SizIdle /\ ScoreIdle /\ EngIdle

\* detect_regime(d1, h4, h1)
RegimeDetect ==
    /\ detOut = <<>>
    /\ detOut' = <<DetectRegime(detIn[1].d1, detIn[1].h4, detIn[1].h1)>>
    /\ UNCHANGED detIn
    /\ UNCHANGED <<corrVars, flowVars, sizVars, scVars, engVars>>

RegimeNext == RegimeDetect

SpecRegime == RegimeInit /\ [][RegimeNext]_vars

(***************************************************************************)
(* The session analyzer on its own: a signal is assessed at some hour of   *)
(* the day.                                                                *)
(***************************************************************************)
SessionHours == 0..23
SessionSignals == {[side |-> sd, score |-> sc] : sd \in Sides, sc \in 6..10}

SessionInit ==
    /\ \E hour \in SessionHours, signal \in SessionSignals :
          detIn = <<[hour |-> hour, signal |-> signal]>>
    /\ detOut = <<>>
    /\ CorrIdle /\ FlowIdle /\ SizIdle /\ ScoreIdle /\ EngIdle

\* analyze_session_optimality(signal), with the session it read
SessionAnalyze ==
    /\ detOut = <<>>
    /\ detOut' = <<[session |-> GetCurrentSession(detIn[1].hour),
                    analysis |-> AnalyzeSessionOptimality(detIn[1].signal,
                                                          detIn[1].hour)]>>
    /\ UNCHANGED detIn
    /\ UNCHANGED <<corrVars, flowVars, sizVars, scVars, engVars>>

SessionNext == SessionAnalyze

SpecSession == SessionInit /\ [][SessionNext]_vars

(***************************************************************************)
(* Properties of the correlation guard (SpecCorr)                          *)
(***************************************************************************)
AllUnavailable == \A a \in Assets : Unavailable(corrRates[a])

\* C4: when the price data of every basket asset is unavailable, the
\* correlation insights never show the veto condition (aligned = false and
\* alignment_score < 0.4).
C4_UnavailableNeverVetoes ==
    AllUnavailable => \A i \in DOMAIN corrRunA : ~IsVeto(corrRunA[i])

\* C5: two calls on identical inputs return the same aligned flag and the
\* same alignment score.
C5_SameInputsSameResult ==
    (corrRunA # <<>> /\ corrRunB # <<>>) => corrRunA = corrRunB

(***************************************************************************)
(* Properties of the flow detector (SpecFlow)                              *)
(***************************************************************************)
\* no bar of the series is a block trade inside both the 10-bar window kept
\* by detect_block_trades and the last 5 bars read by is_flow_aligned
NoBlockAvailable(df) ==
    \A idx \in 0..(SLen(df) - 1) :
        (/\ idx >= FlowFirstIdx
         /\ idx >= SLen(df) - FlowKeepBars
         /\ idx >= SLen(df) - FlowRecentBars)
        => AnalyzeCandleForBlocks(df, idx) = <<>>

\* C6: when no block trade is available for the series, the flow gate
\* returns aligned = true with alignment_score 0.5, which is not the veto
\* condition.
C6_NoBlockIsNeutral ==
    \A i \in DOMAIN flowOut :
        NoBlockAvailable(flowDf) =>
            /\ flowOut[i].aligned
            /\ FracEq(flowOut[i].alignment_score, Frac(1, 2))
            /\ ~IsVeto(flowOut[i])

\* the analysis ran on a series whose 10-bar window holds a block trade while
\* its last 5 bars hold none
C6_Witness ==
    /\ flowOut # <<>>
    /\ flowOut[1].recent_blocks_count > 0
    /\ NoBlockAvailable(flowDf)

(***************************************************************************)
(* Properties of adaptive sizing (SpecSizing)                              *)
(***************************************************************************)
\* the score a gate contributes: its own when it ran, else the default
GateScore(signal, key, field, default) ==
    IF key \in DOMAIN signal THEN signal[key][field] ELSE default

\* base_risk x regime multiplier x score/10 x (0.5 + correlation)
\* x (0.5 + flow) x min(1.2, session), clamped to [0.005, 0.05], as a
\* percentage in hundredths
C7_ExpectedPercent ==
    LET pm == IF "position_size_multiplier" \in DOMAIN sizRegime.adaptive_params
              THEN sizRegime.adaptive_params.position_size_multiplier
              ELSE Frac(1, 1)
        c == GateScore(sizSignal, "correlation_insights", "alignment_score", Frac(1, 2))
        f == GateScore(sizSignal, "flow_analysis", "alignment_score", Frac(1, 2))
        se == GateScore(sizSignal, "session_analysis", "optimality_score", Frac(1, 1))
        capped == IF FracLt(Frac(12, 10), se) THEN Frac(12, 10) ELSE se
        p == FracMul(FracMul(FracMul(sizBase, pm), Frac(sizSignal.score, 10)),
                     FracMul(FracMul(FracAdd(Frac(1, 2), c), FracAdd(Frac(1, 2), f)),
                             capped))
    IN IF FracLt(p, Frac(5, 1000)) THEN 50
       ELSE IF FracLt(Frac(5, 100), p) THEN 500
       ELSE RoundHalfEven(FracMul(p, Frac(10000, 1)))

\* C7: the risk of a sized candidate is the product of the claim clamped to
\* [0.005, 0.05], so adaptive_risk_percent lies in [0.5, 5.0]; a gate that
\* did not run contributes 0.5 (correlation, flow) or 1.0 (session).
C7_SizingFormulaAndRange ==
    \A i \in DOMAIN sizOut :
        /\ sizOut[i].adaptive_risk_percent >= 50
        /\ sizOut[i].adaptive_risk_percent <= 500
        /\ sizOut[i].adaptive_risk_percent = C7_ExpectedPercent

\* a sized candidate whose session gate did not run and whose product is
\* above the upper cap
C7_Witness ==
    /\ sizOut # <<>>
    /\ "session_analysis" \notin DOMAIN sizSignal
    /\ FracLt(RiskCeil, UncappedRisk(sizSignal, sizRegime, sizBase))
    /\ sizOut[1].adaptive_risk_percent = 500

(***************************************************************************)
(* Properties of the scorer (SpecScore)                                    *)
(***************************************************************************)
\* the caps the claim gives for the eight categories, in hundredths
C8_Caps ==
    [daily_bias |-> 150, ob_quality |-> 150, liquidity |-> 150,
     fu_strength |-> 150, market_structure |-> 150,
     institutional_zone |-> 100, volume |-> 100, imbalance |-> 50]

\* C8: calculate_elite_score returns a breakdown holding exactly the eight
\* categories, each between zero and its cap, so the raw total is at most
\* 10.0, and a final score that is an integer from 1 to 10.
C8_BreakdownWithinCapsScoreInRange ==
    \A i \in DOMAIN scOut :
        LET b == scOut[i].score_breakdown
        IN /\ DOMAIN b = DOMAIN C8_Caps
           /\ \A k \in DOMAIN b : b[k] >= 0 /\ b[k] <= C8_Caps[k]
           /\ scOut[i].total_score
                = b.daily_bias + b.ob_quality + b.liquidity + b.fu_strength
                  + b.market_structure + b.institutional_zone + b.volume
                  + b.imbalance
           /\ scOut[i].total_score <= 1000
           /\ scOut[i].score \in 1..10

\* a score was returned for arguments whose doubled total is above 10, with
\* three categories at their caps
C8_Witness ==
    /\ scOut # <<>>
    /\ scOut[1].total_score > 500
    /\ scOut[1].score = 10
    /\ scOut[1].score_breakdown.ob_quality = 150
    /\ scOut[1].score_breakdown.fu_strength = 150
    /\ scOut[1].score_breakdown.imbalance = 50

(***************************************************************************)
(* Properties of the pipeline of one candidate (SpecPipeline)              *)
(***************************************************************************)
PipelineOrder ==
    <<"score_threshold", "dedup", "news", "correlation", "flow", "session",
      "sizing", "save", "notify">>
StagePos(stage) == CHOOSE i \in DOMAIN PipelineOrder : PipelineOrder[i] = stage
Called(r, stage) == \E i \in DOMAIN r.calls : r.calls[i] = stage
LastCalled(r) == r.calls[Len(r.calls)]
\* the check a rejecting status belongs to
RejectedAt ==
    [BELOW_THRESHOLD |-> "score_threshold", DUPLICATE |-> "dedup",
     NEWS_BLACKOUT |-> "news", CORRELATION_VETO |-> "correlation",
     FLOW_VETO |-> "flow"]
VetoResult(gate) == gate # <<>> /\ IsVeto(gate[1])
PassedGates(r) == r.flow # <<>> /\ ~IsVeto(r.flow[1])

\* C1: the stages of a cycle are entered in the order score threshold, dedup,
\* news, correlation, flow, session, sizing, save, notify; a candidate that a
\* check rejects (low score, duplicate, blackout, a veto result of the
\* correlation or the flow gate) has that check as its last stage, so
\* save_signal and the notifier are not called for it.
C1_OrderAndShortCircuit ==
    \A n \in DOMAIN last :
        LET r == last[n]
        IN /\ \A i, j \in DOMAIN r.calls :
                  i < j => StagePos(r.calls[i]) < StagePos(r.calls[j])
           /\ r.status \in DOMAIN RejectedAt =>
                  /\ r.calls # <<>>
                  /\ LastCalled(r) = RejectedAt[r.status]
                  /\ ~Called(r, "save") /\ ~Called(r, "notify")
                  /\ sent = <<>>
           /\ VetoResult(r.correlation) => LastCalled(r) = "correlation"
           /\ VetoResult(r.flow) => LastCalled(r) = "flow"
C1_Witness ==
    /\ last # <<>>
    /\ last[1].status = "FLOW_VETO"
    /\ last[1].calls = <<"score_threshold", "dedup", "news", "correlation", "flow">>
    /\ VetoResult(last[1].flow)

\* C2: a candidate is rejected at the correlation gate exactly when the
\* correlation checks are enabled and the result has aligned = false and
\* alignment_score < 0.4, at the flow gate exactly when its result has
\* aligned = false and alignment_score < 0.4, and a candidate that passed the
\* flow gate goes on to adaptive sizing and save whatever the session.
C2_VetoConditionsSessionNeverRejects ==
    \A n \in DOMAIN last :
        LET r == last[n]
        IN /\ r.status = "CORRELATION_VETO" <=>
                  (cfg.correlation_checks /\ VetoResult(r.correlation))
           /\ r.status = "FLOW_VETO" <=> VetoResult(r.flow)
           /\ PassedGates(r) => Called(r, "sizing") /\ Called(r, "save")

\* C3: a candidate built by the engine that meets the threshold, is no
\* duplicate, is outside a blackout and is vetoed by neither gate ends
\* ACCEPTED: save_signal returns a positive id, the row is stored and the
\* notifier is called exactly once for it.
C3_PassingCandidateSavedAndNotifiedOnce ==
    \A n \in DOMAIN last :
        LET r == last[n]
        IN (PassedGates(r) /\ r.status # "RAISED") =>
               /\ r.status = "ACCEPTED"
               /\ r.id > 0
               /\ \E i \in DOMAIN signals : signals[i].id = r.id
               /\ sent = <<r.id>>

(***************************************************************************)
(* Properties of the outcome check (SpecOutcomes)                          *)
(***************************************************************************)
StopConfirmed(s, b) ==
    IF s.side = "BUY" THEN b.l <= s.sl /\ b.c <= s.sl
    ELSE b.h >= s.sl /\ b.c >= s.sl
StopWicked(s, b) ==
    IF s.side = "BUY" THEN b.l <= s.sl /\ b.c > s.sl
    ELSE b.h >= s.sl /\ b.c < s.sl
Targets(s) == [TP1 |-> s.tp1, TP2 |-> s.tp2, TP3 |-> s.tp3]
TargetTouched(s, b, tp) ==
    IF s.side = "BUY" THEN b.h >= Targets(s)[tp] ELSE b.l <= Targets(s)[tp]

FetchFails(rates) ==
    \E i \in DOMAIN TfNames :
        rates[TfNames[i]].kind # "df" \/ rates[TfNames[i]].bars < FetchMinBars

\* C11: whatever happens to one symbol, every symbol of the configured list
\* is processed in the cycle and run_cycle does not raise.
C11_EverySymbolProcessed ==
    cycle # <<>> =>
        /\ ~cycle[1].raised
        /\ Len(last) = Len(cfg.symbols)
C11_Witness ==
    /\ cycle # <<>>
    /\ Len(last) = 2
    /\ last[1].status = "RAISED"
    /\ last[2].status = "NO_SETUP"

\* C12: a symbol for which get_rates raises, returns None or returns fewer
\* than 100 bars for one of D1, H4, H1 ends the cycle with no stage entered,
\* no signal built, nothing stored or notified, and no exception.
C12_NoDataNoStage ==
    cycle # <<>> =>
        \A i \in DOMAIN last :
            FetchFails(cycle[1].rates[i]) =>
                /\ last[i].status = "NO_DATA"
                /\ last[i].calls = <<>>
                /\ last[i].side = <<>> /\ last[i].score = <<>>
                /\ last[i].id = 0
                /\ sent = <<>>
                /\ ~cycle[1].raised
C12_Witness ==
    /\ cycle # <<>>
    /\ cycle[1].rates[1].H1 = FetchFrame(FetchMinBars - 1)
    /\ last[1].status = "NO_DATA"
    /\ last[2].status = "SAVE_FAILED"

RegimeUnavailable(c) ==
    \/ \E i \in DOMAIN TfNames : c.regime_rates[TfNames[i]].kind # "df"
    \/ ~c.detected

\* C19: when a reference series is unavailable or detect_regime raises, the
\* cycle runs with regime type UNKNOWN and no adaptive parameters: the
\* threshold is the configured minimum score, the risk and the position size
\* multipliers are 1.0, run_cycle does not raise and every symbol is
\* processed.
C19_UnknownRegimeDefaults ==
    (cycle # <<>> /\ RegimeUnavailable(cycle[1])) =>
        LET regime_info == cycle[1].regime_info
            adaptive_params == DictGet(regime_info, "adaptive_params", <<>>)
        IN /\ regime_info.type = "UNKNOWN"
           /\ AdaptiveThreshold(regime_info, cfg) = cfg.min_elite_score
           /\ DictGet(adaptive_params, "risk_multiplier", Frac(1, 1)) = Frac(1, 1)
           /\ DictGet(adaptive_params, "position_size_multiplier", Frac(1, 1)) = Frac(1, 1)
           /\ \A i \in DOMAIN last :
                  last[i].score # <<>> => last[i].score[1] >= cfg.min_elite_score
           /\ ~cycle[1].raised
           /\ Len(last) = Len(cfg.symbols)
C19_Witness ==
    /\ cycle # <<>>
    /\ cycle[1].regime_rates.H1 = FetchRaises
    /\ cycle[1].regime_info = UnknownRegime
    /\ Len(last) = 2
    /\ last[1].status = "SAVE_FAILED"
    /\ last[1].risk # <<>>

(***************************************************************************)
(* Properties of the store under repeated use (SpecStore)                  *)
(***************************************************************************)
\* C13: no two stored rows share a dedup identity and no id is notified
\* twice; a handled candidate whose identity is in the store ends at the
\* dedup check with nothing stored or sent, and a save_signal on an identity
\* in the store returns a non-positive id and sends nothing.
C13_OneSignalPerIdentity ==
    /\ \A i, j \in DOMAIN signals :
           signals[i].signal_hash = signals[j].signal_hash => i = j
    /\ \A i, j \in DOMAIN sent : sent[i] = sent[j] => i = j
    /\ \A i \in DOMAIN sent : \E j \in DOMAIN signals : signals[j].id = sent[i]
    /\ \A n \in DOMAIN cycle :
           cycle[n].existed =>
               /\ cycle[n].returned <= 0
               /\ Len(signals) = cycle[n].rows_before
               /\ Len(sent) = cycle[n].sent_before
               /\ cycle[n].op = "handle" =>
                      /\ last[1].status = "DUPLICATE"
                      /\ LastCalled(last[1]) = "dedup"
C13_Witness ==
    /\ cycle # <<>>
    /\ cycle[1].op = "save"
    /\ cycle[1].existed
    /\ cycle[1].returned = -1
    /\ Len(sent) = 1
    /\ Len(signals) = 2

(***************************************************************************)
(* The window of recent_blocks (SpecFlow)                                  *)
(***************************************************************************)
\* indexes of the bars of the series that are block trades inside the window
WindowBlockIdx(df) ==
    {idx \in FlowFirstIdx..(SLen(df) - 1) :
        idx >= SLen(df) - FlowKeepBars /\ AnalyzeCandleForBlocks(df, idx) # <<>>}

\* C14: after a call on a series of n bars recent_blocks holds exactly the
\* block trades of the series with bar index >= n - 10, each once and at
\* most 10 of them, and nothing an earlier call stored outside that window.
C14_RecentBlocksIsWindow ==
    flowOut # <<>> =>
        /\ {recent_blocks[i] : i \in DOMAIN recent_blocks}
               = {AnalyzeCandleForBlocks(flowDf, idx)[1] : idx \in WindowBlockIdx(flowDf)}
        /\ Len(recent_blocks) = Cardinality(WindowBlockIdx(flowDf))
        /\ Len(recent_blocks) <= FlowKeepBars
        /\ \A i \in DOMAIN flowOut[1].before :
               flowOut[1].before[i].idx < SLen(flowDf) - FlowKeepBars
                   => \A j \in DOMAIN recent_blocks :
                          recent_blocks[j].idx # flowOut[1].before[i].idx
\* a block stored by the previous call has left the window, another is kept
C14_Witness ==
    /\ flowOut # <<>>
    /\ \E i \in DOMAIN flowOut[1].before :
           flowOut[1].before[i].idx < SLen(flowDf) - FlowKeepBars
    /\ recent_blocks # <<>>

(***************************************************************************)
(* Properties of the analysis on candles (SpecDet)                         *)
(***************************************************************************)
\* the series a block was found on
SeriesOf(in, ob) == IF ob.tf = "H4" THEN in.h4 ELSE in.h1
\* the displacement bars of the series whose loop step emits exactly this block
ImpulsesOf(df, ob) ==
    {i \in ObFirstIdx..(CLen(df) - ObTailBars - 1) : OrderBlockAt(df, ob.tf, i) = <<ob>>}
IsFlat(df) == \A idx \in 0..(CLen(df) - 1) : CBar(df, idx) = FlatCandle

\* C18: on flat H4 and H1 series of any length no order block is found, and
\* the analysis ends with no candidate: no threshold test, no signal.
C18_FlatSeriesNoBlock ==
    \A n \in DOMAIN detOut :
        IsFlat(detIn[1].h4) /\ IsFlat(detIn[1].h1) =>
            /\ detOut[n].h4_blocks = <<>>
            /\ detOut[n].h1_blocks = <<>>
            /\ detOut[n].best_ob = <<>>
            /\ detOut[n].st = Progress("NO_SETUP", <<>>, <<>>)
C18_Witness ==
    /\ detOut # <<>>
    /\ IsFlat(detIn[1].h4) /\ IsFlat(detIn[1].h1)
    /\ CLen(detIn[1].h1) = 120
    /\ detOut[1].st.status = "NO_SETUP"

\* C15: the side of the signal follows the impulse behind its block: a
\* bearish candle picked behind a bullish displacement bar gives BUY, a
\* bullish candle behind a bearish displacement bar gives SELL.
C15_SideFollowsImpulse ==
    \A n \in DOMAIN detOut :
        detOut[n].st.signal # <<>> =>
            LET sig == detOut[n].st.signal[1]
                df == SeriesOf(detIn[1], sig.ob)
            IN \A i \in ImpulsesOf(df, sig.ob) :
                  /\ CBar(df, i).c > CBar(df, i).o => sig.side = "BUY"
                  /\ CBar(df, i).c < CBar(df, i).o => sig.side = "SELL"

\* C16: the entry is the midpoint of the chosen block's body, strictly
\* between body_low and body_high, and every block found has
\* body_low < body_high.
C16_EntryInsideBody ==
    \A n \in DOMAIN detOut :
        /\ \A k \in DOMAIN detOut[n].h1_blocks :
               detOut[n].h1_blocks[k].body_low < detOut[n].h1_blocks[k].body_high
        /\ \A k \in DOMAIN detOut[n].h4_blocks :
               detOut[n].h4_blocks[k].body_low < detOut[n].h4_blocks[k].body_high
        /\ detOut[n].st.signal # <<>> =>
               LET sig == detOut[n].st.signal[1]
               IN /\ 2 * sig.entry = sig.ob.body_low + sig.ob.body_high
                  /\ sig.ob.body_low < sig.entry
                  /\ sig.entry < sig.ob.body_high

\* C17: BUY levels are ordered sl < entry < tp1 < tp2 < tp3 and SELL levels
\* the other way round, with the stop beyond the block's wick.
C17_LevelsOrdered ==
    \A n \in DOMAIN detOut :
        detOut[n].st.signal # <<>> =>
            LET sig == detOut[n].st.signal[1]
            IN IF sig.side = "BUY"
               THEN /\ sig.sl < sig.entry /\ sig.entry < sig.tps[1]
                    /\ sig.tps[1] < sig.tps[2] /\ sig.tps[2] < sig.tps[3]
                    /\ sig.sl <= sig.ob.wick_low
               ELSE /\ sig.sl > sig.entry /\ sig.entry > sig.tps[1]
                    /\ sig.tps[1] > sig.tps[2] /\ sig.tps[2] > sig.tps[3]
                    /\ sig.sl >= sig.ob.wick_high

(***************************************************************************)
(* Properties of the FU candle detector (SpecFu)                           *)
(***************************************************************************)
\* C20: when an FU candle is detected on a series, it is detected with the
\* same direction and at least the same strength on the series that differs
\* only by a larger volume on the last bar.
C20_MoreVolumeNoWeakerFu ==
    \A n \in DOMAIN detOut :
        detOut[n].first # <<>> =>
            /\ detOut[n].second # <<>>
            /\ detOut[n].second[1].direction = detOut[n].first[1].direction
            /\ ~FracLess(detOut[n].second[1].strength, detOut[n].first[1].strength)
\* detected on both, and stronger with the larger volume
C20_Witness ==
    /\ detOut # <<>>
    /\ detOut[1].first # <<>>
    /\ detOut[1].second # <<>>
    /\ detOut[1].first[1].direction = "bearish"
    /\ FracLess(detOut[1].first[1].strength, detOut[1].second[1].strength)

(***************************************************************************)
(* Properties of the regime detector (SpecRegime)                          *)
(***************************************************************************)
\* the bucket the thresholds give a ratio num / den
VolatilityBucket(num, den) ==
    IF 10 * num >= 18 * den THEN "HIGH_VOLATILITY"
    ELSE IF 10 * num >= 13 * den THEN "ELEVATED_VOLATILITY"
    ELSE IF 10 * num <= 5 * den THEN "EXTREME_LOW_VOLATILITY"
    ELSE IF 10 * num <= 7 * den THEN "LOW_VOLATILITY"
    ELSE "NORMAL_VOLATILITY"

\* C21: the volatility regime is the bucket of current ATR over mean ATR:
\* >= 1.8 HIGH, >= 1.3 ELEVATED, <= 0.5 EXTREME_LOW, <= 0.7 LOW, else NORMAL.
C21_VolatilityBuckets ==
    \A n \in DOMAIN detOut :
        detIn[1].h1.avg_atr > 0 =>
            detOut[n].volatility_subtype.type
                = VolatilityBucket(detIn[1].h1.current_atr, detIn[1].h1.avg_atr)

\* the last bar makes a higher high and higher low, or a lower high and lower
\* low, against the 19 bars before it
MakesNewStructure(df) ==
    \/ df.h > df.hi_max19 /\ df.l > df.lo_max19
    \/ df.h < df.hi_min19 /\ df.l < df.lo_min19
AlignedSlopes(df) ==
    \/ df.ema20_slope > 0 /\ df.ema50_slope > 0
    \/ df.ema20_slope < 0 /\ df.ema50_slope < 0

\* C22: when D1 and H4 both make new structure with aligned EMA slopes, the
\* structure component is awarded, the trend is STRONG and, without extreme
\* volatility, the regime is TRENDING_<direction>.
C22_StrongTrendIsDirectional ==
    \A n \in DOMAIN detOut :
        LET in == detIn[1]
            extreme == detOut[n].volatility_subtype.type
                           \in {"HIGH_VOLATILITY", "EXTREME_LOW_VOLATILITY"}
        IN (/\ in.d1.n >= TrendStrengthMinBars /\ in.h4.n >= TrendStrengthMinBars
            /\ MakesNewStructure(in.d1) /\ MakesNewStructure(in.h4)
            /\ AlignedSlopes(in.d1) /\ AlignedSlopes(in.h4)
            /\ ~extreme)
           => /\ detOut[n].trend_subtype.type = "STRONG_TREND"
              /\ detOut[n].type = (IF in.d1.uptrend THEN "TRENDING_BULLISH"
                                   ELSE "TRENDING_BEARISH")

(***************************************************************************)
(* Properties of the structure detectors, as the scoring calls them        *)
(* (SpecScore)                                                             *)
(***************************************************************************)
\* what a break of the highest high (lowest low) of the 9 bars before the
\* last one is to give
BreakExpected(df) ==
    IF df.h > df.hi9 /\ df.c > df.hi9
    THEN [confirmed |-> TRUE, direction |-> "bullish",
          strength10 |-> IF df.h > df.h2 /\ df.l > df.l2 THEN 10 ELSE 5]
    ELSE IF df.l < df.lo9 /\ df.c < df.lo9
    THEN [confirmed |-> TRUE, direction |-> "bearish",
          strength10 |-> IF df.h < df.h2 /\ df.l < df.l2 THEN 10 ELSE 5]
    ELSE [confirmed |-> FALSE, direction |-> "none", strength10 |-> 0]

\* C23: on a series of at least lookback + 5 bars, bos_mss_confirmed returns
\* (True, 'bullish', s) when the last bar's high and close are above the
\* highest high of the preceding bars of the window, s = 1.0 with a higher
\* high and higher low than the bar before and 0.5 otherwise; mirrored for
\* 'bearish'; (False, 'none', 0.0) when the close does not clear the extreme.
C23_BreakOfStructureConfirmed ==
    \A n \in DOMAIN scOut :
        \A df \in {scIn[1].h1, scIn[1].h4} :
            df.n >= BosLookback + 5 => BosMssConfirmed(df) = BreakExpected(df)

\* what a sweep of the swing high (low) of the 19 bars before the last one
\* is to give: the type and the swept price
GrabExpected(df) ==
    IF df.h > df.hi19 /\ df.c < df.hi19 /\ df.v > df.vhi
    THEN <<[type |-> "grab_highs", sweep_price |-> df.hi19]>>
    ELSE IF df.l < df.lo19 /\ df.c > df.lo19 /\ df.v > df.vlo
    THEN <<[type |-> "grab_lows", sweep_price |-> df.lo19]>>
    ELSE <<>>

\* C24: liquidity_grab_detected returns grab_highs whenever the last bar's
\* high exceeds the swing high of the preceding bars of the 20-bar window,
\* its close is back below it and its volume exceeds the swing bar's volume
\* (grab_lows mirrored), and None otherwise.
C24_SweepIsGrab ==
    \A n \in DOMAIN scOut :
        LET df == scIn[1].h1
            grab == LiquidityGrabDetected(df)
            want == GrabExpected(df)
        IN df.n >= 10 =>
            /\ (grab = <<>>) = (want = <<>>)
            /\ grab # <<>> => /\ grab[1].type = want[1].type
                              /\ grab[1].sweep_price = want[1].sweep_price

(***************************************************************************)
(* Properties of the order block search (SpecDet)                          *)
(***************************************************************************)
\* the bars of the scan whose displacement reaches the minimum
DisplacementBars(df) ==
    {i \in ObFirstIdx..(CLen(df) - ObTailBars - 1) :
        ~FracLt(CalculateDisplacement(df, i), Frac(MinDisplacement, 1))}
\* the candles of the colour opposite to bar i among the `back` bars before it
OppositeBefore(df, i, back) ==
    {j \in (IF i - back > 0 THEN i - back ELSE 0)..(i - 1) :
        IF CBar(df, i).c > CBar(df, i).o THEN CBar(df, j).c < CBar(df, j).o
        ELSE CBar(df, j).c > CBar(df, j).o}
NearestOf(S) == CHOOSE m \in S : \A k \in S : k <= m
\* the candle of highest quality, the nearest of those that share it
BestOf(df, S) ==
    CHOOSE m \in S : \A k \in S \ {m} :
        \/ FracLess(CalculateCandleQuality(df, k), CalculateCandleQuality(df, m))
        \/ /\ ~FracLess(CalculateCandleQuality(df, m), CalculateCandleQuality(df, k))
           /\ k < m
\* the blocks found in df are one per bar of `bars`, built from candle pick[bar]
BlocksAre(blocks, bars, pick) ==
    /\ Len(blocks) = Cardinality(bars)
    /\ \A j \in {pick[i] : i \in bars} :
           Cardinality({n \in DOMAIN blocks : blocks[n].idx = j})
               = Cardinality({i \in bars : pick[i] = j})

C26_OverlapFrom13To16 ==
    \A n \in DOMAIN detOut :
        (13 <= detIn[1].hour /\ detIn[1].hour < 16) =>
            /\ ~detOut[n].session.raised
            /\ detOut[n].session.name = "OVERLAP"
            /\ detOut[n].session.score_boost = Frac(18, 10)

(***************************************************************************)
(* Properties of the outcomes over a sequence of checks (SpecOutcomes)     *)
(***************************************************************************)
\* the positions in the outcomes of the hit types `hits` of signal id
OutcomesOf(recs, id, hits) ==
    {i \in DOMAIN recs : recs[i].signal_id = id /\ recs[i].hit_type \in hits}
SignalIds == {signals[j].id : j \in DOMAIN signals}
\* SL or TP3 is on record for signal id
Closed(id) == OutcomesOf(outcomes, id, {"SL", "TP3"}) # {}

\* C27: each of SL, TP1, TP2, TP3 is recorded at most once per signal; once
\* SL or TP3 is recorded the signal is inactive, and no further outcome is
\* ever recorded for it.
C27_OutcomesOnceThenFinal ==
    /\ [](\A id \in SignalIds :
            /\ \A hit \in {"SL", "TP1", "TP2", "TP3"} :
                   Cardinality(OutcomesOf(outcomes, id, {hit})) <= 1
            /\ Closed(id) =>
                   \A j \in DOMAIN signals : signals[j].id = id => ~signals[j].active)
    /\ [][\A id \in SignalIds :
            Closed(id) =>
                OutcomesOf(outcomes', id, {"SL", "TP1", "TP2", "TP3"})
                    = OutcomesOf(outcomes, id, {"SL", "TP1", "TP2", "TP3"})]_vars
\* the third target is on record and a later check met a bar that closes
\* beyond the stop: nothing was added
C27_Witness ==
    /\ signals # <<>> /\ latest # <<>>
    /\ OutcomesOf(outcomes, signals[1].id, {"TP3"}) # {}
    /\ OutcomesOf(outcomes, signals[1].id, {"SL"}) = {}
    /\ ~signals[1].active
    /\ StopConfirmed(signals[1], latest[1])

TargetsOrdered(s) ==
    IF s.side = "BUY" THEN s.entry < s.tp1 /\ s.tp1 < s.tp2 /\ s.tp2 < s.tp3
    ELSE s.entry > s.tp1 /\ s.tp1 > s.tp2 /\ s.tp2 > s.tp3

\* C30: for a signal whose targets are ordered away from the entry, the
\* target outcomes are recorded in level order: whenever TPk is on record,
\* every TPj with j < k is on record at an earlier position.
C30_TargetsInLevelOrder ==
    \A j \in DOMAIN signals :
        TargetsOrdered(signals[j]) =>
            \A k \in 1..3 :
                \A i \in OutcomesOf(outcomes, signals[j].id, {TpName(k)}) :
                    \A m \in 1..(k - 1) :
                        \E e \in OutcomesOf(outcomes, signals[j].id, {TpName(m)}) : e < i
\* the first target was recorded by one check and the other two by a later
\* one
C30_Witness ==
    /\ Len(outcomes) = 3 /\ checked # <<>>
    /\ \A i \in 1..3 : outcomes[i].hit_type = TpName(i) /\ outcomes[i].signal_id = 1
    /\ checked[1].had = {"TP1"}
    /\ checked[1].recorded = {"TP2", "TP3"}

(***************************************************************************)
(* Properties of the notification (SpecNotify)                             *)
(***************************************************************************)
\* the ids a store of three identities can give
StoredIds == 1..3
Stored(id) == \E j \in DOMAIN signals : signals[j].id = id
Delivered(id) == \E k \in DOMAIN delivered : delivered[k] = id

=============================================================================
